---- MODULE Spec2Model ----
(***************************************************************************)
(* The acquisition core of the ICM20948 driver                             *)
(* (src/drivers/imu/invensense/icm20948/ICM20948.cpp): the                 *)
(* reset/configure/read state machine, the banked register accessor, the   *)
(* register health check, the FIFO decode and the data-ready handler.      *)
(*                                                                         *)
(* A handler of the driver is modelled as one operator on a record m that  *)
(* holds the driver's members (source names, leading underscore kept),     *)
(* the device behind the bus (dev_bank, dev_regs, dev_booting), the        *)
(* scheduler (run_pending, timer)                                          *)
(* and what the invocation did (log, pub, perf).  Every call the handler   *)
(* makes threads m through, in source order.                               *)
(*                                                                         *)
(* A register byte is the set of its bit positions that are 1              *)
(* (0x41 = {0,6}): | is \cup, & is \cap, &~ is \.  A FIFO byte is 0..255.  *)
(* Time is hrt_abstime in microseconds.                                    *)
(***************************************************************************)
EXTENDS Integers, Sequences, FiniteSets, TLC

VARIABLES
    now,                                \* hrt_absolute_time()
    _state,
    _reset_timestamp,
    _last_config_check_timestamp,
    _temperature_update_timestamp,
    _last_register_bank,
    _data_ready_interrupt_enabled,
    _force_fifo_count_check,
    _data_ready_count,
    _fifo_read_samples,
    _fifo_watermark_interrupt_timestamp,
    _checked_register_bank0,
    _checked_register_bank2,
    _checked_register_bank3,
    _fifo_empty_interval_us,
    _fifo_gyro_samples,
    _fifo_accel_samples,
    _drdy_gpio,
    _slave_ak09916_magnetometer,
    _register_bank3_cfg,
    run_pending,                        \* the work item is queued (ScheduleNow, or a timer fired)
    timer,                              \* the armed hrt call of the work item
    irq_armed,                          \* the data-ready GPIO event is set up
    dev_bank,                           \* REG_BANK_SEL as the device holds it
    dev_regs,                           \* the device's registers
    dev_booting,                        \* the device is inside its reset
    last,                               \* the last step: operation, inputs, bus log, published batches
    edges,                              \* history: data-ready edges since the last signal or FIFO reset
    reset_acked,                        \* history: a matching read-back was seen after the last reset command
    faults,                             \* history: invocations of RunImpl() in which a transfer failed
    resets,                             \* history: calls of Reset() from outside
    reconfiguring,                      \* history: a health check failed and none has run since
    worker                              \* where RunImpl() stands when it is run store by store

vars == << now, _state, _reset_timestamp, _last_config_check_timestamp,
           _temperature_update_timestamp, _last_register_bank,
           _data_ready_interrupt_enabled, _force_fifo_count_check,
           _data_ready_count, _fifo_read_samples,
           _fifo_watermark_interrupt_timestamp, _checked_register_bank0,
           _checked_register_bank2, _checked_register_bank3,
           _fifo_empty_interval_us, _fifo_gyro_samples, _fifo_accel_samples,
           _drdy_gpio, _slave_ak09916_magnetometer, _register_bank3_cfg,
           run_pending, timer, irq_armed, dev_bank, dev_regs, dev_booting,
           last, edges, reset_acked, faults, resets, reconfiguring, worker >>

\* ------------------------------------------------------------ constants

\* time literals of RunImpl
T_10ms == 10000
T_100ms == 100000
T_1s == 1000000

\* ICM20948.hpp / InvenSense_ICM20948_registers.hpp
FIFO_SIZE == 512
FIFO_DATA_SIZE == 12
FIFO_MAX_SAMPLES == 32
SAMPLES_PER_TRANSFER == 2
GYRO_RATE == 9000
ACCEL_RATE == 4500
DEFAULT_RATE == 800

INT16_MIN == -32768
INT16_MAX == 32767

WHOAMI == {1, 3, 5, 6, 7}               \* 0xEA
PWR_MGMT_1_RESET_VALUE == {0, 6}        \* 0x41
DEVICE_RESET == {7}
FIFO_RESET == {0, 1, 2, 3, 4}

USER_BANK_0 == 0
USER_BANK_2 == 2
USER_BANK_3 == 3

STATE_RESET == "RESET"
STATE_WAIT_FOR_RESET == "WAIT_FOR_RESET"
STATE_CONFIGURE == "CONFIGURE"
STATE_FIFO_READ == "FIFO_READ"
States == {STATE_RESET, STATE_WAIT_FOR_RESET, STATE_CONFIGURE, STATE_FIFO_READ}

\* ------------------------------------------------------------ bounds

MaxTime == 40000          \* the clock stops here
MaxFailIdx == 1            \* a single failing transfer is one of the first MaxFailIdx of an invocation
MaxTransfers == 64         \* more than any invocation issues
MaxDrifted == 1            \* registers the environment keeps off their policy at a time
MaxFaults == 1            \* invocations of RunImpl() with a failing transfer
MaxResets == 1            \* calls of Reset() from outside
MaxResetTime == 230000    \* the clock of the reset handshake stops here
MaxFifoTime == 40000      \* the clock of the FIFO cycles stops here
StartTime == 0       \* hrt_absolute_time() when init() runs
MaxRate == 5000           \* the largest sample rate the driver is constructed with
MaxRateTime == 40000      \* the clock of the constructed drivers stops here
MaxAxisTime == 40000      \* the clock of the axis conversion stops here
MaxCountTime == 40000     \* the clock of the counted cycles stops here
SideStart == 950000       \* hrt_absolute_time() when init() runs late after boot
MaxSideTime == 1020000    \* the clock of the late driver stops here

\* ------------------------------------------------------------ register map

\* The bank that owns each register the core addresses (Register::BANK_0/2/3).
RegBank(reg) ==
    CASE reg \in {"WHO_AM_I", "USER_CTRL", "PWR_MGMT_1", "INT_PIN_CFG", "FIFO_RST",
                  "FIFO_COUNTH", "FIFO_R_W", "TEMP_OUT_H"} -> USER_BANK_0
      [] reg \in {"GYRO_CONFIG_1", "ACCEL_CONFIG"} -> USER_BANK_2
      [] reg \in {"I2C_MST_CTRL", "I2C_MST_DELAY_CTRL", "I2C_SLV4_CTRL"} -> USER_BANK_3

\* The registers the device model stores.
DevRegisters == {"USER_CTRL", "PWR_MGMT_1", "INT_PIN_CFG", "FIFO_RST",
                 "GYRO_CONFIG_1", "ACCEL_CONFIG",
                 "I2C_MST_CTRL", "I2C_MST_DELAY_CTRL", "I2C_SLV4_CTRL"}

\* register_bank0_config_t _register_bank0_cfg[size_register_bank0_cfg]
size_register_bank0_cfg == 3
_register_bank0_cfg ==
    << [reg |-> "USER_CTRL",   set_bits |-> {4, 5, 6}, clear_bits |-> {7}],
       [reg |-> "PWR_MGMT_1",  set_bits |-> {0},       clear_bits |-> {6, 7}],
       [reg |-> "INT_PIN_CFG", set_bits |-> {7},       clear_bits |-> {}] >>

size_register_bank2_cfg == 2
_register_bank2_cfg ==
    << [reg |-> "GYRO_CONFIG_1", set_bits |-> {1, 2}, clear_bits |-> {0}],
       [reg |-> "ACCEL_CONFIG",  set_bits |-> {1, 2}, clear_bits |-> {0}] >>

\* _register_bank3_cfg as declared: no bit is required until the constructor
\* finds the magnetometer enabled.
size_register_bank3_cfg == 3
register_bank3_cfg_default ==
    << [reg |-> "I2C_MST_CTRL",       set_bits |-> {}, clear_bits |-> {}],
       [reg |-> "I2C_MST_DELAY_CTRL", set_bits |-> {}, clear_bits |-> {}],
       [reg |-> "I2C_SLV4_CTRL",      set_bits |-> {}, clear_bits |-> {}] >>

\* The constructor's loop over _register_bank3_cfg (enable_magnetometer).
Bank3CfgWithMagnetometer ==
    [i \in 1..size_register_bank3_cfg |->
        LET r == register_bank3_cfg_default[i] IN
        IF r.reg = "I2C_SLV4_CTRL" THEN [r EXCEPT !.set_bits = {0, 1, 2, 3, 4}]
        ELSE IF r.reg = "I2C_MST_CTRL" THEN [r EXCEPT !.set_bits = {0, 1, 2, 4}]
        ELSE IF r.reg = "I2C_MST_DELAY_CTRL" THEN [r EXCEPT !.set_bits = {0, 1, 2, 3, 4}]
        ELSE r]

\* ------------------------------------------------------------ the device

\* Register values after a device reset: 0x00 but for PWR_MGMT_1 (0x41).
DevResetRegs ==
    [r \in DevRegisters |-> IF r = "PWR_MGMT_1" THEN PWR_MGMT_1_RESET_VALUE ELSE {}]

\* The device answers a register address in the bank it has selected; the
\* model stores no register at a core address in a foreign bank, which reads 0.
DevRead(m, reg) ==
    IF m.dev_booting \/ m.dev_bank # RegBank(reg) THEN {}
    ELSE IF reg = "WHO_AM_I" THEN WHOAMI
    ELSE IF reg \in DevRegisters THEN m.dev_regs[reg]
    ELSE {}

DevWrite(m, reg, val) ==
    IF m.dev_booting \/ m.dev_bank # RegBank(reg) \/ reg \notin DevRegisters THEN m
    ELSE IF reg = "PWR_MGMT_1" /\ DEVICE_RESET \subseteq val
    THEN [m EXCEPT !.dev_regs = DevResetRegs, !.dev_bank = USER_BANK_0, !.dev_booting = TRUE]
    ELSE [m EXCEPT !.dev_regs[reg] = val]

\* ------------------------------------------------------------ the bus

\* transfer(): the next transfer of this invocation fails when its index is
\* in the invocation's failure set; a failed transfer does not reach the device.
BusOK(m) == (m.n + 1) \notin m.fail

Logged(m, e) == [m EXCEPT !.n = @ + 1, !.log = Append(@, e)]

Ret(m, v) == [m EXCEPT !.ret = v]

PerfCount(m, c) == [m EXCEPT !.perf[c] = @ + 1]

\* The entry of the log for a transfer that addresses reg.
Entry(m, op, reg, bank, val) ==
    [op |-> op, reg |-> reg, bank |-> bank, cached |-> m._last_register_bank,
     dev_bank |-> m.dev_bank, ok |-> BusOK(m), val |-> val]

\* transfer(cmd_bank_sel, ...); _last_register_bank = bank;
SelectRegisterBank_Transfer(m, bank) ==
    [Logged(m, Entry(m, "bank_sel", "REG_BANK_SEL", bank, {}))
        EXCEPT !.dev_bank = IF BusOK(m) /\ ~m.dev_booting THEN bank ELSE @,
               !._last_register_bank = bank]

SelectRegisterBank(m, bank) ==
    IF bank # m._last_register_bank THEN SelectRegisterBank_Transfer(m, bank) ELSE m

\* transfer(cmd, cmd, sizeof(cmd)); return cmd[1];
RegisterRead_Transfer(m, reg) ==
    LET v == IF BusOK(m) THEN DevRead(m, reg) ELSE {}
    IN  Ret(Logged(m, Entry(m, "read", reg, RegBank(reg), v)), v)

RegisterRead(m, reg) == RegisterRead_Transfer(SelectRegisterBank(m, RegBank(reg)), reg)

RegisterWrite_Transfer(m, reg, value) ==
    IF BusOK(m)
    THEN DevWrite(Logged(m, Entry(m, "write", reg, RegBank(reg), value)), reg, value)
    ELSE Logged(m, Entry(m, "write", reg, RegBank(reg), value))

RegisterWrite(m, reg, value) ==
    RegisterWrite_Transfer(SelectRegisterBank(m, RegBank(reg)), reg, value)

RegisterSetAndClearBits_NoClear(m, reg, setbits, clearbits) ==
    RegisterWrite(m, reg, m.ret \cup setbits)

\* val = orig_val; val |= setbits; val &= ~clearbits; RegisterWrite(reg, val);
RegisterSetAndClearBits_Write(m, reg, setbits, clearbits) ==
    RegisterWrite(m, reg,
                  IF clearbits # {}
                  THEN (IF setbits # {} THEN m.ret \cup setbits ELSE m.ret) \ clearbits
                  ELSE (IF setbits # {} THEN m.ret \cup setbits ELSE m.ret))

RegisterSetAndClearBits(m, reg, setbits, clearbits) ==
    RegisterSetAndClearBits_Write(RegisterRead(m, reg), reg, setbits, clearbits)

RegisterSetBits(m, reg, setbits) == RegisterSetAndClearBits(m, reg, setbits, {})

RegisterClearBits(m, reg, clearbits) == RegisterSetAndClearBits(m, reg, {}, clearbits)

\* The test of RegisterCheck on the value read.
RegisterValueOK(reg_cfg, reg_value) ==
    /\ ~(reg_cfg.set_bits # {} /\ (reg_value \cap reg_cfg.set_bits) # reg_cfg.set_bits)
    /\ ~(reg_cfg.clear_bits # {} /\ (reg_value \cap reg_cfg.clear_bits) # {})

\* if (notify) { perf_count(_bad_register_perf); increase_error_count() twice }
RegisterCheck_Notify(m, notify) ==
    Ret(IF notify
        THEN PerfCount(PerfCount(PerfCount(m, "bad_register"), "accel_error"), "gyro_error")
        ELSE m, FALSE)

\* RegisterCheck after its RegisterRead: m.ret is reg_value.
RegisterCheck_Value(m, reg_cfg, notify) ==
    IF RegisterValueOK(reg_cfg, m.ret) THEN Ret(m, TRUE)
    ELSE RegisterCheck_Notify(
            RegisterSetAndClearBits(m, reg_cfg.reg, reg_cfg.set_bits, reg_cfg.clear_bits),
            notify)

RegisterCheck(m, reg_cfg, notify) ==
    RegisterCheck_Value(RegisterRead(m, reg_cfg.reg), reg_cfg, notify)

\* A loop of Configure() over one table: every entry is checked, whatever
\* the earlier entries returned.
RECURSIVE CheckTable(_, _, _, _)
RECURSIVE CheckTable_Next(_, _, _, _)
CheckTable(m, cfg, i, success) ==
    IF i > Len(cfg) THEN Ret(m, success)
    ELSE CheckTable_Next(RegisterCheck(m, cfg[i], FALSE), cfg, i, success)

CheckTable_Next(m, cfg, i, success) == CheckTable(m, cfg, i + 1, success /\ m.ret)

\* ConfigureAccel(), ConfigureGyro(): the range registers are read.
ConfigureAccel(m) == RegisterRead(m, "ACCEL_CONFIG")

ConfigureGyro(m) == RegisterRead(m, "GYRO_CONFIG_1")

\* Configure() after its three loops: m.ret is success.
Configure_Ranges(m) == Ret(ConfigureGyro(ConfigureAccel(m)), m.ret)

Configure_Bank3(m) == Configure_Ranges(CheckTable(m, m._register_bank3_cfg, 1, m.ret))

Configure_Bank2(m) == Configure_Bank3(CheckTable(m, _register_bank2_cfg, 1, m.ret))

Configure(m) == Configure_Bank2(CheckTable(m, _register_bank0_cfg, 1, TRUE))

\* ------------------------------------------------------------ the scheduler

NoTimer == [kind |-> "none", due |-> 0, interval |-> 0]

ScheduleNow(m) == [m EXCEPT !.run_pending = TRUE]

ScheduleClear(m) == [m EXCEPT !.run_pending = FALSE, !.timer = NoTimer]

ScheduleDelayed(m, delay_us) ==
    [m EXCEPT !.timer = [kind |-> "delayed", due |-> m.now + delay_us, interval |-> 0]]

ScheduleOnInterval(m, interval_us, delay_us) ==
    [m EXCEPT !.timer = [kind |-> "interval", due |-> m.now + delay_us, interval |-> interval_us]]

hrt_elapsed_time(m, then) == m.now - then

\* ------------------------------------------------------------ the FIFO

Min(a, b) == IF a < b THEN a ELSE b

\* static constexpr int16_t combine(uint8_t msb, uint8_t lsb)
combine(msb, lsb) ==
    IF msb * 256 + lsb >= 32768 THEN msb * 256 + lsb - 65536 ELSE msb * 256 + lsb

\* conversion of an int16_t to uint16_t
AsUint16(v) == v % 65536

\* conversion to uint8_t
AsUint8(v) == v % 256

ZeroFrame == [ACCEL |-> <<0, 0, 0, 0, 0, 0>>, GYRO |-> <<0, 0, 0, 0, 0, 0>>]

\* The device answers a FIFO address only in bank 0 and outside its reset.
DevFIFOAnswers(m) == ~m.dev_booting /\ m.dev_bank = USER_BANK_0

\* The bytes a FIFO transfer of transfer_size bytes leaves in a zeroed
\* FIFOTransferBuffer: the count bytes, then the whole frames that fit.
DevFIFOTransfer(m, transfer_size) ==
    [FIFO_COUNTH |-> IF DevFIFOAnswers(m) THEN m.in_fifo.count \div 256 ELSE 0,
     FIFO_COUNTL |-> IF DevFIFOAnswers(m) THEN m.in_fifo.count % 256 ELSE 0,
     f |-> [i \in 0..(FIFO_MAX_SAMPLES - 1) |->
              IF /\ DevFIFOAnswers(m)
                 /\ i < (transfer_size - 3) \div FIFO_DATA_SIZE
                 /\ i < Len(m.in_fifo.frames)
              THEN m.in_fifo.frames[i + 1] ELSE ZeroFrame]]

FIFOReset(m) ==
    [RegisterClearBits(RegisterSetBits(PerfCount(m, "fifo_reset"), "FIFO_RST", FIFO_RESET),
                       "FIFO_RST", FIFO_RESET)
        EXCEPT !._data_ready_count = 0,
               !._fifo_watermark_interrupt_timestamp = 0,
               !._fifo_read_samples = 0,
               !.edges = 0]

\* FIFOReadCount() after its bank select: the transfer of FIFO_COUNTH/L.
FIFOReadCount_Transfer(m) ==
    IF ~BusOK(m)
    THEN Ret(PerfCount(Logged(m, Entry(m, "fifo_count", "FIFO_COUNTH", USER_BANK_0, {})),
                       "bad_transfer"), 0)
    ELSE Ret(Logged(m, Entry(m, "fifo_count", "FIFO_COUNTH", USER_BANK_0, {})),
             IF DevFIFOAnswers(m)
             THEN AsUint16(combine(m.in_count \div 256, m.in_count % 256))
             ELSE 0)

FIFOReadCount(m) == FIFOReadCount_Transfer(SelectRegisterBank(m, USER_BANK_0))

\* Y and Z are flipped: (v == INT16_MIN) ? INT16_MAX : -v
Flip_Wrapping(v) == IF v = INT16_MIN THEN INT16_MIN ELSE -v

Flip(v) == IF v = INT16_MIN THEN INT16_MAX ELSE -v

fifo_accel_equal(f0, f1) == f0.ACCEL = f1.ACCEL

\* The choice of accel_first_sample and bad_data in ProcessAccel.
AccelFirstSample_NoShift(buffer, samples) ==
    IF samples >= 4 /\ ~(fifo_accel_equal(buffer.f[0], buffer.f[1]) /\ fifo_accel_equal(buffer.f[2], buffer.f[3]))
    THEN [first |-> 1, bad_data |-> TRUE]
    ELSE [first |-> 1, bad_data |-> FALSE]

AccelFirstSample(buffer, samples) ==
    IF samples >= 4
    THEN IF fifo_accel_equal(buffer.f[0], buffer.f[1]) /\ fifo_accel_equal(buffer.f[2], buffer.f[3])
         THEN [first |-> 1, bad_data |-> FALSE]
         ELSE IF fifo_accel_equal(buffer.f[1], buffer.f[2])
         THEN [first |-> 0, bad_data |-> FALSE]
         ELSE [first |-> 1, bad_data |-> TRUE]
    ELSE [first |-> 1, bad_data |-> FALSE]

\* The accel loop running one frame further.
RECURSIVE AccelIndices_Through(_, _)
AccelIndices_Through(i, samples) ==
    IF i <= samples THEN <<i>> \o AccelIndices_Through(i + 2, samples) ELSE <<>>

\* The frame indices the accel loop visits: first, first + 2, ... below samples.
RECURSIVE AccelIndices(_, _)
AccelIndices(i, samples) ==
    IF i < samples THEN <<i>> \o AccelIndices(i + 2, samples) ELSE <<>>

\* The loop of ProcessAccel over idx, and _px4_accel.updateFIFO(accel).
ProcessAccel_Publish(m, timestamp_sample, buffer, sel, idx) ==
    Ret([(IF sel.bad_data THEN PerfCount(m, "bad_transfer") ELSE m)
            EXCEPT !.pub = Append(@,
                [sensor |-> "accel",
                 timestamp_sample |-> timestamp_sample,
                 dt |-> m._fifo_empty_interval_us \div m._fifo_accel_samples,
                 samples |-> Len(idx),
                 first |-> sel.first,
                 x |-> [k \in 1..Len(idx) |->
                          combine(buffer.f[idx[k]].ACCEL[1], buffer.f[idx[k]].ACCEL[2])],
                 y |-> [k \in 1..Len(idx) |->
                          Flip(combine(buffer.f[idx[k]].ACCEL[3], buffer.f[idx[k]].ACCEL[4]))],
                 z |-> [k \in 1..Len(idx) |->
                          Flip(combine(buffer.f[idx[k]].ACCEL[5], buffer.f[idx[k]].ACCEL[6]))]])],
        ~sel.bad_data)

ProcessAccel_From(m, timestamp_sample, buffer, samples, sel) ==
    ProcessAccel_Publish(m, timestamp_sample, buffer, sel, AccelIndices(sel.first, samples))

ProcessAccel(m, timestamp_sample, buffer, samples) ==
    ProcessAccel_From(m, timestamp_sample, buffer, samples, AccelFirstSample(buffer, samples))

ProcessGyro(m, timestamp_sample, buffer, samples) ==
    [m EXCEPT !.pub = Append(@,
        [sensor |-> "gyro",
         timestamp_sample |-> timestamp_sample,
         dt |-> m._fifo_empty_interval_us \div m._fifo_gyro_samples,
         samples |-> samples,
         first |-> 0,
         x |-> [k \in 1..samples |->
                  combine(buffer.f[k - 1].GYRO[1], buffer.f[k - 1].GYRO[2])],
         y |-> [k \in 1..samples |->
                  Flip(combine(buffer.f[k - 1].GYRO[3], buffer.f[k - 1].GYRO[4]))],
         z |-> [k \in 1..samples |->
                  Flip(combine(buffer.f[k - 1].GYRO[5], buffer.f[k - 1].GYRO[6]))]])]

\* The first decision of FIFORead on _force_fifo_count_check.
FifoOutOfSync_NoBehind(samples, fifo_count_samples) ==
    fifo_count_samples < samples

FifoOutOfSync(samples, fifo_count_samples) ==
    IF fifo_count_samples < samples THEN TRUE
    ELSE IF fifo_count_samples >= samples + 2 THEN TRUE
    ELSE FALSE

\* The overflow test of FIFORead on the byte count of the transfer.
FifoOverflowed_Above(fifo_count_bytes) == fifo_count_bytes > FIFO_SIZE

FifoOverflowed(fifo_count_bytes) == fifo_count_bytes >= FIFO_SIZE

\* FIFORead after ProcessAccel: m.ret is its result.
FIFORead_Return(m) ==
    IF m.ret THEN Ret(m, TRUE) ELSE Ret([m EXCEPT !._force_fifo_count_check = TRUE], FALSE)

\* The two extractions in the other order.
FIFORead_Process_AccelFirst(m, timestamp_sample, buffer, valid_samples) ==
    IF valid_samples > 0
    THEN FIFORead_Return(
            ProcessGyro(ProcessAccel(m, timestamp_sample, buffer, valid_samples),
                        timestamp_sample, buffer, valid_samples))
    ELSE Ret([m EXCEPT !._force_fifo_count_check = TRUE], FALSE)

\* if (valid_samples > 0) { ProcessGyro(...); if (ProcessAccel(...)) return true; }
FIFORead_Process(m, timestamp_sample, buffer, valid_samples) ==
    IF valid_samples > 0
    THEN FIFORead_Return(
            ProcessAccel(ProcessGyro(m, timestamp_sample, buffer, valid_samples),
                         timestamp_sample, buffer, valid_samples))
    ELSE Ret([m EXCEPT !._force_fifo_count_check = TRUE], FALSE)

\* FIFORead on the byte count of the transfer.
FIFORead_Count(m, timestamp_sample, samples, buffer, fifo_count_bytes) ==
    IF fifo_count_bytes \div FIFO_DATA_SIZE = 0 THEN Ret(PerfCount(m, "fifo_empty"), FALSE)
    ELSE IF FifoOverflowed(fifo_count_bytes)
    THEN Ret(FIFOReset(PerfCount(m, "fifo_overflow")), FALSE)
    ELSE FIFORead_Process(
            [m EXCEPT !._force_fifo_count_check =
                         FifoOutOfSync(samples, fifo_count_bytes \div FIFO_DATA_SIZE),
                      !.decoded = Min(samples, fifo_count_bytes \div FIFO_DATA_SIZE)],
            timestamp_sample, buffer,
            Min(samples, fifo_count_bytes \div FIFO_DATA_SIZE))

FIFORead_Buffer(m, timestamp_sample, samples, buffer) ==
    FIFORead_Count(m, timestamp_sample, samples, buffer,
                   AsUint16(combine(buffer.FIFO_COUNTH, buffer.FIFO_COUNTL)))

\* FIFORead after its bank select: the transfer of the buffer.
FIFORead_Transfer(m, timestamp_sample, samples) ==
    IF ~BusOK(m)
    THEN Ret(PerfCount(Logged(m, Entry(m, "fifo_read", "FIFO_COUNTH", USER_BANK_0, {})),
                       "bad_transfer"), FALSE)
    ELSE FIFORead_Buffer(Logged(m, Entry(m, "fifo_read", "FIFO_COUNTH", USER_BANK_0, {})),
                         timestamp_sample, samples,
                         DevFIFOTransfer(m, Min(samples * FIFO_DATA_SIZE + 3, FIFO_SIZE)))

FIFORead(m, timestamp_sample, samples) ==
    FIFORead_Transfer(SelectRegisterBank(m, USER_BANK_0), timestamp_sample, samples)

UpdateTemperature_Transfer(m) ==
    IF ~BusOK(m)
    THEN PerfCount(Logged(m, Entry(m, "temperature", "TEMP_OUT_H", USER_BANK_0, {})),
                   "bad_transfer")
    ELSE Logged(m, Entry(m, "temperature", "TEMP_OUT_H", USER_BANK_0, {}))

UpdateTemperature(m) == UpdateTemperature_Transfer(SelectRegisterBank(m, USER_BANK_0))

\* ------------------------------------------------------------ DataReady

\* An entry of the invocation's log that is no bus transfer.
Note(m, what) ==
    [m EXCEPT !.log = Append(@, [op |-> what, reg |-> "", bank |-> m._last_register_bank,
                                 cached |-> m._last_register_bank,
                                 dev_bank |-> m.dev_bank, ok |-> TRUE, val |-> {}])]

\* The test of DataReady on the value fetch_add(1) returned.
WatermarkReached_OneLate(m, old_count) == old_count >= m._fifo_gyro_samples

WatermarkReached(m, old_count) == old_count >= (m._fifo_gyro_samples - 1)

\* The handler that signals and lets the edge counter run on.
DataReady_CountOn(m) ==
    IF WatermarkReached(m, m._data_ready_count)
    THEN ScheduleNow([m EXCEPT !._data_ready_count = AsUint8(@ + 1),
                               !._fifo_watermark_interrupt_timestamp = m.now,
                               !._fifo_read_samples = m._fifo_gyro_samples,
                               !.signalled = TRUE,
                               !.signal_edges = m.edges + 1,
                               !.edges = 0])
    ELSE [m EXCEPT !._data_ready_count = AsUint8(@ + 1), !.edges = @ + 1]

DataReady(m) ==
    IF WatermarkReached(m, m._data_ready_count)
    THEN ScheduleNow([m EXCEPT !._data_ready_count = 0,
                               !._fifo_watermark_interrupt_timestamp = m.now,
                               !._fifo_read_samples = m._fifo_gyro_samples,
                               !.signalled = TRUE,
                               !.signal_edges = m.edges + 1,
                               !.edges = 0])
    ELSE [m EXCEPT !._data_ready_count = AsUint8(@ + 1), !.edges = @ + 1]

DataReadyInterruptConfigure(m) ==
    IF m._drdy_gpio = 0 THEN Ret(m, FALSE)
    ELSE Ret([Note(m, "irq_configure") EXCEPT !.irq_armed = @ \/ m.in_gpio_ok], m.in_gpio_ok)

\* ------------------------------------------------------------ Reset, RunImpl

Reset_KeepSchedule(m) ==
    ScheduleNow([m EXCEPT !._state = STATE_RESET, !.reconfiguring = FALSE])

Reset(m) ==
    ScheduleNow(ScheduleClear([m EXCEPT !._state = STATE_RESET, !.reconfiguring = FALSE]))

RunReset_NoSchedule(m) ==
    [RegisterWrite(m, "PWR_MGMT_1", DEVICE_RESET)
        EXCEPT !._reset_timestamp = m.now,
               !._state = STATE_WAIT_FOR_RESET,
               !.reset_acked = FALSE]

RunReset(m) ==
    ScheduleDelayed([RegisterWrite(m, "PWR_MGMT_1", DEVICE_RESET)
                        EXCEPT !._reset_timestamp = m.now,
                               !._state = STATE_WAIT_FOR_RESET,
                               !.reset_acked = FALSE], T_10ms)

\* && (RegisterRead(PWR_MGMT_1) == 0x41), after its read
ResetReadback_Result(m) == Ret(m, m.ret = PWR_MGMT_1_RESET_VALUE)

ResetReadback_IdentityOnly(m) == Ret(m, m.ret = WHOAMI)

\* (RegisterRead(WHO_AM_I) == WHOAMI) && ..., after its first read
ResetReadback_Power(m) ==
    IF m.ret = WHOAMI THEN ResetReadback_Result(RegisterRead(m, "PWR_MGMT_1"))
    ELSE Ret(m, FALSE)

ResetReadback(m) == ResetReadback_Power(RegisterRead(m, "WHO_AM_I"))

ResetTimedOut_AtLimit(m) == hrt_elapsed_time(m, m._reset_timestamp) >= T_100ms

ResetTimedOut(m) == hrt_elapsed_time(m, m._reset_timestamp) > T_100ms

\* WAIT_FOR_RESET after the read-back: m.ret is its result.
RunWaitForReset_Decide(m) ==
    IF m.ret
    THEN ScheduleDelayed([m EXCEPT !._state = STATE_CONFIGURE, !.reset_acked = TRUE], T_10ms)
    ELSE IF ResetTimedOut(m)
    THEN ScheduleDelayed([m EXCEPT !._state = STATE_RESET], T_100ms)
    ELSE ScheduleDelayed(m, T_10ms)

RunWaitForReset(m) == RunWaitForReset_Decide(ResetReadback(m))

\* if (DataReadyInterruptConfigure()) { ... ScheduleDelayed(10_ms) } else { ... ScheduleOnInterval }
RunConfigure_Schedule(m) ==
    IF m.ret
    THEN ScheduleDelayed([m EXCEPT !._data_ready_interrupt_enabled = TRUE], T_10ms)
    ELSE ScheduleOnInterval([m EXCEPT !._data_ready_interrupt_enabled = FALSE],
                            m._fifo_empty_interval_us, m._fifo_empty_interval_us)

\* if (_slave_ak09916_magnetometer) { _slave_ak09916_magnetometer->Reset(); }
RunConfigure_Magnetometer(m) ==
    IF m._slave_ak09916_magnetometer THEN Note(m, "magnetometer_reset") ELSE m

\* CONFIGURE after Configure(): m.ret is its result.
RunConfigure_Result_ResetFirst(m) ==
    IF m.ret
    THEN RunConfigure_Schedule(DataReadyInterruptConfigure(
            [FIFOReset(RunConfigure_Magnetometer(m)) EXCEPT !._state = STATE_FIFO_READ]))
    ELSE ScheduleDelayed(m, T_10ms)

RunConfigure_Result_Restart(m) ==
    IF m.ret
    THEN FIFOReset(RunConfigure_Schedule(DataReadyInterruptConfigure(
            [RunConfigure_Magnetometer(m) EXCEPT !._state = STATE_FIFO_READ,
                                                 !._checked_register_bank0 = 0,
                                                 !._checked_register_bank2 = 0,
                                                 !._checked_register_bank3 = 0])))
    ELSE ScheduleDelayed(m, T_10ms)

RunConfigure_Result(m) ==
    IF m.ret
    THEN FIFOReset(RunConfigure_Schedule(DataReadyInterruptConfigure(
            [RunConfigure_Magnetometer(m) EXCEPT !._state = STATE_FIFO_READ])))
    ELSE ScheduleDelayed(m, T_10ms)

RunConfigure(m) == RunConfigure_Result(Configure(m))

\* samples = (fifo_count / sizeof(FIFO::DATA) / SAMPLES_PER_TRANSFER) * SAMPLES_PER_TRANSFER,
\* stored in a uint8_t
CountToSamples(fifo_count) ==
    AsUint8(((fifo_count \div FIFO_DATA_SIZE) \div SAMPLES_PER_TRANSFER) * SAMPLES_PER_TRANSFER)

\* register check failed, force reconfigure
HealthCheck_Failed(m) ==
    ScheduleNow([m EXCEPT !._state = STATE_CONFIGURE, !.reconfiguring = TRUE])

\* The incremental check of one entry of each table, and what follows it.
HealthCheck_Result_OneModulus(m, timestamp_sample) ==
    IF ~m.ret THEN HealthCheck_Failed(m)
    ELSE [m EXCEPT !._last_config_check_timestamp = timestamp_sample,
                   !._checked_register_bank0 = (@ + 1) % size_register_bank0_cfg,
                   !._checked_register_bank2 = (@ + 1) % size_register_bank0_cfg,
                   !._checked_register_bank3 = (@ + 1) % size_register_bank0_cfg]

HealthCheck_Result(m, timestamp_sample) ==
    IF ~m.ret THEN HealthCheck_Failed(m)
    ELSE [m EXCEPT !._last_config_check_timestamp = timestamp_sample,
                   !._checked_register_bank0 = (@ + 1) % size_register_bank0_cfg,
                   !._checked_register_bank2 = (@ + 1) % size_register_bank2_cfg,
                   !._checked_register_bank3 = (@ + 1) % size_register_bank3_cfg]

HealthCheck_Bank3(m, timestamp_sample) ==
    IF ~m.ret THEN HealthCheck_Failed(m)
    ELSE HealthCheck_Result(
            RegisterCheck(m, m._register_bank3_cfg[m._checked_register_bank3 + 1], TRUE),
            timestamp_sample)

HealthCheck_Bank2(m, timestamp_sample) ==
    IF ~m.ret THEN HealthCheck_Failed(m)
    ELSE HealthCheck_Bank3(
            RegisterCheck(m, _register_bank2_cfg[m._checked_register_bank2 + 1], TRUE),
            timestamp_sample)

HealthCheck(m, timestamp_sample) ==
    HealthCheck_Bank2(
        RegisterCheck(m, _register_bank0_cfg[m._checked_register_bank0 + 1], TRUE),
        timestamp_sample)

\* The side work with the health check due at 10 ms already.
RunFifoRead_Check_AtLimit(m) ==
    IF m.failure \/ hrt_elapsed_time(m, m._last_config_check_timestamp) >= T_10ms
    THEN HealthCheck(Note([m EXCEPT !.reconfiguring = FALSE], "health_check"), m.timestamp_sample)
    ELSE IF hrt_elapsed_time(m, m._temperature_update_timestamp) > T_1s
    THEN [UpdateTemperature(m) EXCEPT !._temperature_update_timestamp = m.timestamp_sample]
    ELSE m

\* FIFO_READ from "if (failure || hrt_elapsed_time(&_last_config_check_timestamp) > 10_ms)".
RunFifoRead_Check(m) ==
    IF m.failure \/ hrt_elapsed_time(m, m._last_config_check_timestamp) > T_10ms
    THEN HealthCheck(Note([m EXCEPT !.reconfiguring = FALSE], "health_check"), m.timestamp_sample)
    ELSE IF hrt_elapsed_time(m, m._temperature_update_timestamp) > T_1s
    THEN [UpdateTemperature(m) EXCEPT !._temperature_update_timestamp = m.timestamp_sample]
    ELSE m

\* if (!FIFORead(timestamp_sample, samples)) { failure = true; ... }
RunFifoRead_Read(m) ==
    IF ~m.ret
    THEN [PerfCount(PerfCount(m, "accel_error"), "gyro_error") EXCEPT !.failure = TRUE]
    ELSE [m EXCEPT !.failure = FALSE]

\* FIFO_READ from "if (samples > FIFO_MAX_SAMPLES)": m.samples and
\* m.timestamp_sample are the locals.
RunFifoRead_Samples(m) ==
    RunFifoRead_Check(
        IF m.samples > FIFO_MAX_SAMPLES
        THEN [FIFOReset(PerfCount(m, "fifo_overflow")) EXCEPT !.failure = TRUE]
        ELSE IF m.samples >= SAMPLES_PER_TRANSFER
        THEN RunFifoRead_Read(FIFORead(m, m.timestamp_sample, m.samples))
        ELSE IF m.samples = 0
        THEN [PerfCount(m, "fifo_empty") EXCEPT !.failure = TRUE]
        ELSE [m EXCEPT !.failure = FALSE])

\* timestamp_sample = hrt_absolute_time(); samples from FIFOReadCount(), m.ret
RunFifoRead_Recount(m) ==
    RunFifoRead_Samples([m EXCEPT !.samples = CountToSamples(m.ret),
                                  !.from_drdy = FALSE,
                                  !.timestamp_sample = m.now])

\* manually check FIFO count if no samples from DRDY or timestamp looks bogus
RunFifoRead_Manual(m, samples, timestamp_sample) ==
    IF \/ ~m._data_ready_interrupt_enabled
       \/ samples = 0
       \/ hrt_elapsed_time(m, timestamp_sample) > (m._fifo_empty_interval_us \div 2)
    THEN RunFifoRead_Recount(FIFOReadCount(m))
    ELSE RunFifoRead_Samples([m EXCEPT !.samples = samples,
                                       !.from_drdy = TRUE,
                                       !.timestamp_sample = timestamp_sample])

\* the forced count of the interrupt mode, m.ret
RunFifoRead_Counted(m) ==
    RunFifoRead_Manual(m, CountToSamples(m.ret), m._fifo_watermark_interrupt_timestamp)

\* if (_data_ready_interrupt_enabled) after ScheduleDelayed(10_ms)
RunFifoRead_Drdy(m) ==
    IF ~m._force_fifo_count_check
    THEN RunFifoRead_Manual(m, m._fifo_read_samples, m._fifo_watermark_interrupt_timestamp)
    ELSE RunFifoRead_Counted(FIFOReadCount(m))

RunFifoRead(m) ==
    IF m._data_ready_interrupt_enabled
    THEN RunFifoRead_Drdy(ScheduleDelayed(m, T_10ms))
    ELSE RunFifoRead_Manual(m, 0, 0)

RunImpl(m) ==
    CASE m._state = STATE_RESET -> RunReset(m)
      [] m._state = STATE_WAIT_FOR_RESET -> RunWaitForReset(m)
      [] m._state = STATE_CONFIGURE -> RunConfigure(m)
      [] m._state = STATE_FIFO_READ -> RunFifoRead(m)

\* ------------------------------------------------------------ the constructor

RECURSIVE GCD(_, _)
GCD(a, b) == IF b = 0 THEN a ELSE GCD(b, a % b)

\* A sample period 1e6f / rate in microseconds as the fraction num / den in
\* lowest terms (1e6 / 9000 = 1000 / 9).
SampleDt(rate) == [num |-> 1000000 \div GCD(1000000, rate), den |-> rate \div GCD(1000000, rate)]

\* roundf(math::min(interval_us / dt, (float)FIFO_MAX_SAMPLES))
SamplesIn(interval_us, dt) ==
    IF interval_us * dt.den >= FIFO_MAX_SAMPLES * dt.num THEN FIFO_MAX_SAMPLES
    ELSE (2 * interval_us * dt.den + dt.num) \div (2 * dt.num)

\* ConfigureSampleRate(sample_rate): the float arithmetic on exact fractions,
\* the conversions to the integer members truncating.
\* FIFO_SAMPLE_DT = 1e6 / GYRO_RATE, min_interval = SAMPLES_PER_TRANSFER * FIFO_SAMPLE_DT.
ConfigureSampleRate(sample_rate_in) ==
    LET sample_rate == IF sample_rate_in = 0 THEN DEFAULT_RATE ELSE sample_rate_in
        \* roundf((1e6 / sample_rate) / min_interval)
        k0 == (2 * GYRO_RATE + SAMPLES_PER_TRANSFER * sample_rate) \div (2 * SAMPLES_PER_TRANSFER * sample_rate)
        k == IF k0 < 1 THEN 1 ELSE k0
        interval1 == (k * SAMPLES_PER_TRANSFER * SampleDt(GYRO_RATE).num) \div SampleDt(GYRO_RATE).den
        gyro == SamplesIn(interval1, SampleDt(GYRO_RATE))
        interval2 == (gyro * SampleDt(GYRO_RATE).num) \div SampleDt(GYRO_RATE).den
        accel == SamplesIn(interval2, SampleDt(ACCEL_RATE))
    IN  [_fifo_empty_interval_us |-> interval2, _fifo_gyro_samples |-> gyro,
         _fifo_accel_samples |-> accel]

\* ------------------------------------------------------------ state and steps

PerfCounters == {"bad_register", "bad_transfer", "fifo_empty", "fifo_overflow",
                 "fifo_reset", "accel_error", "gyro_error"}

PerfZero == [c \in PerfCounters |-> 0]

NoFifo == [count |-> 0, frames |-> <<>>]

\* The record a handler starts from: the state, the inputs of the invocation
\* and an empty account of what it did.
Cur(fail, in_count, in_fifo, in_gpio_ok) ==
    [ now |-> now, _state |-> _state, _reset_timestamp |-> _reset_timestamp,
      _last_config_check_timestamp |-> _last_config_check_timestamp,
      _temperature_update_timestamp |-> _temperature_update_timestamp,
      _last_register_bank |-> _last_register_bank,
      _data_ready_interrupt_enabled |-> _data_ready_interrupt_enabled,
      _force_fifo_count_check |-> _force_fifo_count_check,
      _data_ready_count |-> _data_ready_count,
      _fifo_read_samples |-> _fifo_read_samples,
      _fifo_watermark_interrupt_timestamp |-> _fifo_watermark_interrupt_timestamp,
      _checked_register_bank0 |-> _checked_register_bank0,
      _checked_register_bank2 |-> _checked_register_bank2,
      _checked_register_bank3 |-> _checked_register_bank3,
      _fifo_empty_interval_us |-> _fifo_empty_interval_us,
      _fifo_gyro_samples |-> _fifo_gyro_samples,
      _fifo_accel_samples |-> _fifo_accel_samples,
      _drdy_gpio |-> _drdy_gpio,
      _slave_ak09916_magnetometer |-> _slave_ak09916_magnetometer,
      _register_bank3_cfg |-> _register_bank3_cfg,
      run_pending |-> run_pending, timer |-> timer, irq_armed |-> irq_armed,
      dev_bank |-> dev_bank, dev_regs |-> dev_regs, dev_booting |-> dev_booting,
      edges |-> edges, reset_acked |-> reset_acked, reconfiguring |-> reconfiguring,
      worker |-> worker,
      fail |-> fail, in_count |-> in_count, in_fifo |-> in_fifo, in_gpio_ok |-> in_gpio_ok,
      n |-> 0, log |-> <<>>, pub |-> <<>>, perf |-> PerfZero, ret |-> FALSE,
      samples |-> 0, decoded |-> 0, from_drdy |-> FALSE, timestamp_sample |-> 0,
      failure |-> FALSE, signalled |-> FALSE, signal_edges |-> 0 ]

\* The step that leaves the state a handler returned, and its account in last.
Apply(op, m, r) ==
    /\ _state' = r._state
    /\ _reset_timestamp' = r._reset_timestamp
    /\ _last_config_check_timestamp' = r._last_config_check_timestamp
    /\ _temperature_update_timestamp' = r._temperature_update_timestamp
    /\ _last_register_bank' = r._last_register_bank
    /\ _data_ready_interrupt_enabled' = r._data_ready_interrupt_enabled
    /\ _force_fifo_count_check' = r._force_fifo_count_check
    /\ _data_ready_count' = r._data_ready_count
    /\ _fifo_read_samples' = r._fifo_read_samples
    /\ _fifo_watermark_interrupt_timestamp' = r._fifo_watermark_interrupt_timestamp
    /\ _checked_register_bank0' = r._checked_register_bank0
    /\ _checked_register_bank2' = r._checked_register_bank2
    /\ _checked_register_bank3' = r._checked_register_bank3
    /\ run_pending' = r.run_pending
    /\ timer' = r.timer
    /\ irq_armed' = r.irq_armed
    /\ dev_bank' = r.dev_bank
    /\ dev_regs' = r.dev_regs
    /\ dev_booting' = r.dev_booting
    /\ edges' = r.edges
    /\ reset_acked' = r.reset_acked
    /\ reconfiguring' = r.reconfiguring
    /\ worker' = r.worker
    /\ last' = [op |-> op, from |-> m._state, at |-> m.now, fail |-> m.fail,
                timer_before |-> m.timer, reconfiguring |-> m.reconfiguring,
                coherent |-> (m._last_register_bank = m.dev_bank),
                log |-> r.log, pub |-> r.pub, perf |-> r.perf,
                samples |-> r.samples, decoded |-> r.decoded, from_drdy |-> r.from_drdy,
                timestamp_sample |-> r.timestamp_sample, failure |-> r.failure,
                signalled |-> r.signalled, signal_edges |-> r.signal_edges,
                in_count |-> m.in_count, in_fifo |-> m.in_fifo, ret |-> r.ret]
    /\ UNCHANGED << now, _fifo_empty_interval_us, _fifo_gyro_samples, _fifo_accel_samples,
                    _drdy_gpio, _slave_ak09916_magnetometer, _register_bank3_cfg >>

NoLast == [op |-> "init", from |-> STATE_RESET, at |-> 0, fail |-> {}, coherent |-> TRUE,
           timer_before |-> NoTimer, reconfiguring |-> FALSE,
           log |-> <<>>, pub |-> <<>>, perf |-> PerfZero, samples |-> 0, decoded |-> 0,
           from_drdy |-> FALSE, timestamp_sample |-> 0, failure |-> FALSE,
           signalled |-> FALSE, signal_edges |-> 0, in_count |-> 0, in_fifo |-> NoFifo,
           ret |-> FALSE]

\* The driver as the framework starts it: the constructor, then init(),
\* which ends in Reset().  The device is powered and configured by nobody.
InitDriver(rates, boards, start) ==
    /\ now = start
    /\ _state = STATE_RESET
    /\ _reset_timestamp = 0
    /\ _last_config_check_timestamp = 0
    /\ _temperature_update_timestamp = 0
    /\ _last_register_bank = USER_BANK_0
    /\ _data_ready_interrupt_enabled = FALSE
    /\ _force_fifo_count_check = TRUE
    /\ _data_ready_count = 0
    /\ _fifo_read_samples = 0
    /\ _fifo_watermark_interrupt_timestamp = 0
    /\ _checked_register_bank0 = 0
    /\ _checked_register_bank2 = 0
    /\ _checked_register_bank3 = 0
    /\ \E rate \in rates :
          LET c == ConfigureSampleRate(rate) IN
          /\ _fifo_empty_interval_us = c._fifo_empty_interval_us
          /\ _fifo_gyro_samples = c._fifo_gyro_samples
          /\ _fifo_accel_samples = c._fifo_accel_samples
    /\ \E b \in boards : _drdy_gpio = b.drdy_gpio /\ _slave_ak09916_magnetometer = b.magnetometer
    /\ _register_bank3_cfg = IF _slave_ak09916_magnetometer
                             THEN Bank3CfgWithMagnetometer ELSE register_bank3_cfg_default
    /\ run_pending = TRUE
    /\ timer = NoTimer
    /\ irq_armed = FALSE
    /\ dev_bank = USER_BANK_0
    /\ dev_regs = DevResetRegs
    /\ dev_booting = FALSE
    /\ last = NoLast
    /\ edges = 0
    /\ reset_acked = FALSE
    /\ faults = 0
    /\ resets = 0
    /\ reconfiguring = FALSE
    /\ worker = [pc |-> "idle", samples |-> 0]

\* The failure sets of an invocation: none, one of the first transfers, all.
FailSets == {{}} \cup {{k} : k \in 1..MaxFailIdx} \cup {1..MaxTransfers}

\* The work queue runs the queued work item: RunImpl().
Worker(fails, counts, fifos, gpio_oks, max_faults) ==
    /\ run_pending
    /\ \E fail \in (IF faults < max_faults THEN fails ELSE {{}}),
          in_count \in (IF _state = STATE_FIFO_READ THEN counts ELSE {0}),
          in_fifo \in (IF _state = STATE_FIFO_READ THEN fifos ELSE {NoFifo}),
          in_gpio_ok \in (IF _state = STATE_CONFIGURE /\ _drdy_gpio # 0 THEN gpio_oks ELSE {TRUE}) :
          LET m == [Cur(fail, in_count, in_fifo, in_gpio_ok) EXCEPT !.run_pending = FALSE]
          IN  /\ Apply("RunImpl", m, RunImpl(m))
              /\ faults' = IF fail = {} THEN faults ELSE faults + 1
              /\ resets' = resets

\* A falling edge on the data-ready pin: DataReadyInterruptCallback().
Interrupt ==
    /\ irq_armed
    /\ LET m == Cur({}, 0, NoFifo, TRUE) IN Apply("DataReady", m, DataReady(m))
    /\ UNCHANGED << faults, resets >>

\* Somebody calls Reset().
ResetRequest(max_resets) ==
    /\ resets < max_resets
    /\ LET m == Cur({}, 0, NoFifo, TRUE) IN Apply("Reset", m, Reset(m))
    /\ resets' = resets + 1
    /\ faults' = faults

\* A timestamp as the driver can still tell it apart: once it lies further back
\* than the limit the code compares its age with, only "long ago" is left of it.
Aged(timestamp, limit, t) == IF t - timestamp > limit THEN 0 ELSE timestamp

\* Time passes; an armed timer that falls due queues the work item.
Tick(steps, horizon) ==
    \E dt \in steps :
       /\ ~run_pending
       /\ now + dt <= horizon
       /\ now' = now + dt
       /\ IF timer.kind # "none" /\ timer.due <= now'
          THEN /\ run_pending' = TRUE
               /\ timer' = IF timer.kind = "interval"
                           THEN [timer EXCEPT !.due = now' + timer.interval]
                           ELSE NoTimer
          ELSE UNCHANGED << run_pending, timer >>
       /\ _reset_timestamp' = Aged(_reset_timestamp, T_100ms, now')
       /\ _last_config_check_timestamp' = Aged(_last_config_check_timestamp, T_10ms, now')
       /\ _temperature_update_timestamp' = Aged(_temperature_update_timestamp, T_1s, now')
       /\ _fifo_watermark_interrupt_timestamp' =
             Aged(_fifo_watermark_interrupt_timestamp, _fifo_empty_interval_us \div 2, now')
       /\ last' = [NoLast EXCEPT !.op = "Tick", !.from = _state, !.at = now]
       /\ UNCHANGED << _state, _last_register_bank,
                       _data_ready_interrupt_enabled, _force_fifo_count_check,
                       _data_ready_count, _fifo_read_samples, _checked_register_bank0,
                       _checked_register_bank2, _checked_register_bank3,
                       _fifo_empty_interval_us, _fifo_gyro_samples, _fifo_accel_samples,
                       _drdy_gpio, _slave_ak09916_magnetometer, _register_bank3_cfg,
                       irq_armed, dev_bank, dev_regs, dev_booting, edges, reset_acked,
                       faults, resets, reconfiguring, worker >>

\* The tables' entries, and the registers off their policy on the device.
TableEntries ==
    {_register_bank0_cfg[i] : i \in 1..size_register_bank0_cfg}
    \cup {_register_bank2_cfg[i] : i \in 1..size_register_bank2_cfg}
    \cup {_register_bank3_cfg[i] : i \in 1..size_register_bank3_cfg}

Violating(regs) == {e \in TableEntries : ~RegisterValueOK(e, regs[e.reg])}

DeviceOnly(op) ==
    /\ last' = [NoLast EXCEPT !.op = op, !.from = _state, !.at = now]
    /\ UNCHANGED << now, _state, _reset_timestamp, _last_config_check_timestamp,
                    _temperature_update_timestamp, _last_register_bank,
                    _data_ready_interrupt_enabled, _force_fifo_count_check,
                    _data_ready_count, _fifo_read_samples,
                    _fifo_watermark_interrupt_timestamp, _checked_register_bank0,
                    _checked_register_bank2, _checked_register_bank3,
                    _fifo_empty_interval_us, _fifo_gyro_samples, _fifo_accel_samples,
                    _drdy_gpio, _slave_ak09916_magnetometer, _register_bank3_cfg,
                    run_pending, timer, irq_armed, dev_bank, edges, reset_acked,
                    faults, resets, reconfiguring, worker >>

\* A configured register of the device loses its value.
Drift ==
    /\ ~dev_booting
    /\ Cardinality(Violating(dev_regs)) < MaxDrifted
    /\ \E e \in TableEntries : \E v \in {{}, e.set_bits \cup e.clear_bits} :
          /\ ~RegisterValueOK(e, v)
          /\ dev_regs' = [dev_regs EXCEPT ![e.reg] = v]
    /\ dev_booting' = dev_booting
    /\ DeviceOnly("Drift")

\* The device ends its reset.
DevBootDone ==
    /\ dev_booting
    /\ dev_booting' = FALSE
    /\ dev_regs' = dev_regs
    /\ DeviceOnly("DevBootDone")

\* ------------------------------------------------------------ the driver in its environment

MkFrame(a, g) == [ACCEL |-> <<0, a, 0, a, 0, a>>, GYRO |-> <<0, g, 0, g, 0, g>>]

\* What the FIFO holds when it is read: a byte count and the frames behind it.
Fifo(count, accels) ==
    [count |-> count, frames |-> [i \in 1..Len(accels) |-> MkFrame(accels[i], i)]]

FifoCounts == {0, 4 * FIFO_DATA_SIZE}

Fifos == { Fifo(4 * FIFO_DATA_SIZE, <<1, 1, 2, 2>>) }

TickSteps == {T_10ms}

\* The boards: a data-ready pin and the magnetometer, or neither.
Boards == {[drdy_gpio |-> 1, magnetometer |-> TRUE], [drdy_gpio |-> 0, magnetometer |-> FALSE]}

\* The sample rate the driver is constructed with.
Rates == {4000}

Init == InitDriver(Rates, Boards, StartTime)

Next ==
    \/ Worker(FailSets, FifoCounts, Fifos, BOOLEAN, MaxFaults)
    \/ Interrupt
    \/ ResetRequest(MaxResets)
    \/ Tick(TickSteps, MaxTime)
    \/ DevBootDone

Spec == Init /\ [][Next]_vars

\* ------------------------------------------------------------ the state machine

\* The log of the last step holds an entry of this kind.
Did(what) == \E i \in 1..Len(last.log) : last.log[i].op = what

\* The edges RunImpl() takes.
RunEdges ==
    { <<STATE_RESET, STATE_WAIT_FOR_RESET>>,
      <<STATE_WAIT_FOR_RESET, STATE_CONFIGURE>>,
      <<STATE_WAIT_FOR_RESET, STATE_RESET>>,
      <<STATE_CONFIGURE, STATE_FIFO_READ>>,
      <<STATE_FIFO_READ, STATE_CONFIGURE>> }

\* C1: the state changes only along RESET -> WAIT_FOR_RESET, WAIT_FOR_RESET ->
\* CONFIGURE, WAIT_FOR_RESET -> RESET (after a mismatching read-back), CONFIGURE ->
\* FIFO_READ and FIFO_READ -> CONFIGURE (after a health check) inside RunImpl(),
\* and any state -> RESET by Reset(), which leaves no timer armed and the work
\* item queued; DataReady() and the environment never change the state.
C1_StateEdges ==
    /\ last.op = "RunImpl" =>
          /\ _state = last.from \/ <<last.from, _state>> \in RunEdges
          /\ (last.from = STATE_FIFO_READ /\ _state = STATE_CONFIGURE) =>
                Did("health_check") /\ run_pending
          /\ (last.from = STATE_WAIT_FOR_RESET /\ _state = STATE_RESET) => ~last.ret
    /\ last.op = "Reset" => _state = STATE_RESET /\ run_pending /\ timer = NoTimer
    /\ last.op \notin {"RunImpl", "Reset", "init"} => _state = last.from

\* C1, its case: a Reset() request struck while a timer was armed in FIFO_READ.
C1_Witness ==
    /\ last.op = "Reset"
    /\ last.from = STATE_FIFO_READ
    /\ last.timer_before.kind # "none"

\* C2: every state has the work item queued or a timer armed that falls due
\* within 100 ms, and every RunImpl() ends with the schedule of its state: a delay
\* of 10 ms after RESET, WAIT_FOR_RESET (100 ms on the way back to RESET) and a
\* failed CONFIGURE, the 10 ms watchdog in interrupt mode, the drain interval in
\* polling mode, and the work item queued after a failed health check.
C2_AlwaysScheduled ==
    /\ run_pending \/ (timer.kind # "none" /\ timer.due <= now + T_100ms)
    /\ last.op = "RunImpl" =>
          LET delayed(d) == timer = [kind |-> "delayed", due |-> now + d, interval |-> 0]
              watchdog == IF _data_ready_interrupt_enabled
                          THEN delayed(T_10ms)
                          ELSE /\ timer.kind = "interval"
                               /\ timer.interval = _fifo_empty_interval_us
                               /\ timer.due <= now + _fifo_empty_interval_us
          IN  CASE last.from = STATE_RESET -> delayed(T_10ms)
                [] last.from = STATE_WAIT_FOR_RESET ->
                      IF _state = STATE_RESET THEN delayed(T_100ms) ELSE delayed(T_10ms)
                [] last.from = STATE_CONFIGURE ->
                      IF _state = STATE_CONFIGURE THEN delayed(T_10ms) ELSE watchdog
                [] last.from = STATE_FIFO_READ ->
                      IF _state = STATE_CONFIGURE THEN run_pending ELSE watchdog

\* C2, its case: a FIFO_READ cycle of the interrupt mode in which every transfer failed.
C2_Witness ==
    /\ last.op = "RunImpl"
    /\ last.from = STATE_FIFO_READ
    /\ last.fail = 1..MaxTransfers
    /\ _data_ready_interrupt_enabled
    /\ Len(last.log) > 1

\* ------------------------------------------------------------ register banks

\* The transfers that address a register of a bank.
Accesses == {"read", "write", "fifo_count", "fifo_read", "temperature"}

\* C9: a bank-select transfer is issued only when the requested bank differs
\* from the cached bank, and every register read or write, FIFO count read, FIFO
\* data transfer and temperature read that reaches the device finds the device
\* in the bank that owns the register, which is also the cached bank.
C9_BankConsistency ==
    \A i \in 1..Len(last.log) :
       LET e == last.log[i]
       IN  /\ e.op = "bank_sel" => e.bank # e.cached
           /\ (e.op \in Accesses /\ e.ok) => (e.dev_bank = e.bank /\ e.cached = e.dev_bank)

\* ------------------------------------------------------------ the reset handshake

\* The last step read reg from the bus and got val.
ReadAs(reg, val) ==
    \E i \in 1..Len(last.log) :
       last.log[i].op = "read" /\ last.log[i].reg = reg /\ last.log[i].val = val

\* C10: RunImpl() leaves WAIT_FOR_RESET for CONFIGURE exactly when, in that
\* invocation, WHO_AM_I reads WHOAMI and PWR_MGMT_1 reads 0x41; and Configure()
\* runs only when such a read-back was seen after the last reset command.
C10_ConfigureAfterReadback ==
    /\ (last.op = "RunImpl" /\ last.from = STATE_WAIT_FOR_RESET) =>
          ((_state = STATE_CONFIGURE) <=>
              (ReadAs("WHO_AM_I", WHOAMI) /\ ReadAs("PWR_MGMT_1", PWR_MGMT_1_RESET_VALUE)))
    /\ (_state = STATE_CONFIGURE \/ (last.op = "RunImpl" /\ last.from = STATE_CONFIGURE)) =>
          reset_acked

\* C10, its case: the read-back matches on a later poll, after the device left its reset.
C10_Witness ==
    /\ last.op = "RunImpl"
    /\ last.from = STATE_WAIT_FOR_RESET
    /\ _state = STATE_CONFIGURE
    /\ now - _reset_timestamp > T_10ms

\* The driver on a board without data-ready pin, watched over two reset windows.
PollingBoards == {[drdy_gpio |-> 0, magnetometer |-> FALSE]}

InitReset == InitDriver(Rates, PollingBoards, StartTime)

NextReset ==
    \/ Worker(FailSets, FifoCounts, Fifos, BOOLEAN, MaxFaults)
    \/ ResetRequest(MaxResets)
    \/ Tick(TickSteps, MaxResetTime)
    \/ DevBootDone

SpecReset == InitReset /\ [][NextReset]_vars

\* C3: a poll of WAIT_FOR_RESET whose read-back mismatches stays in
\* WAIT_FOR_RESET and polls again 10 ms later while at most 100 ms have passed
\* since the reset command, and returns to RESET (run 100 ms later) once more
\* than 100 ms have passed; RunImpl() in RESET writes DEVICE_RESET to PWR_MGMT_1
\* and records the time; a wait that has outlasted 100 ms has its poll queued.
C3_ResetTimeout ==
    /\ [](( _state = STATE_WAIT_FOR_RESET /\ now - _reset_timestamp > T_100ms) => run_pending)
    /\ [][ /\ (last'.op = "RunImpl" /\ _state = STATE_WAIT_FOR_RESET /\ ~last'.ret) =>
                IF now - _reset_timestamp > T_100ms
                THEN /\ _state' = STATE_RESET
                     /\ timer' = [kind |-> "delayed", due |-> now + T_100ms, interval |-> 0]
                ELSE /\ _state' = STATE_WAIT_FOR_RESET
                     /\ timer' = [kind |-> "delayed", due |-> now + T_10ms, interval |-> 0]
           /\ (last'.op = "RunImpl" /\ _state = STATE_RESET) =>
                /\ _state' = STATE_WAIT_FOR_RESET
                /\ _reset_timestamp' = now
                /\ \E i \in 1..Len(last'.log) :
                      /\ last'.log[i].op = "write"
                      /\ last'.log[i].reg = "PWR_MGMT_1"
                      /\ last'.log[i].val = DEVICE_RESET
       ]_vars

\* C3, its case: the reset command is written again after a wait that timed out.
C3_Witness ==
    /\ last.op = "RunImpl"
    /\ last.from = STATE_RESET
    /\ resets = 0
    /\ now >= T_100ms + T_100ms
    /\ _reset_timestamp = now

\* ------------------------------------------------------------ configuration drift

\* The driver on a bus that never fails, whose device may lose a configured register.
WorkingBus == {{}}

NextConfigure ==
    \/ Worker(WorkingBus, FifoCounts, Fifos, BOOLEAN, MaxFaults)
    \/ Tick(TickSteps, MaxTime)
    \/ Drift
    \/ DevBootDone

SpecConfigure == Init /\ [][NextConfigure]_vars

\* C4: on a working bus, a Configure() pass that finds a table register off its
\* policy leaves the state at CONFIGURE with the retry 10 ms later, yet reads
\* every entry of the three tables and writes back to each violating register,
\* and to no other, its value with the set bits set and the clear bits cleared,
\* after which no register of the device is off its policy; a pass that finds
\* none off its policy moves to FIFO_READ.
C4_DriftHealed ==
    [][ (last'.op = "RunImpl" /\ _state = STATE_CONFIGURE) =>
           LET bad == Violating(dev_regs)
               log == last'.log
               wrote(e) == {i \in 1..Len(log) : log[i].op = "write" /\ log[i].reg = e.reg}
           IN  IF bad # {}
               THEN /\ _state' = STATE_CONFIGURE
                    /\ timer' = [kind |-> "delayed", due |-> now + T_10ms, interval |-> 0]
                    /\ ~run_pending'
                    /\ \A e \in TableEntries :
                          /\ \E i \in 1..Len(log) : log[i].op = "read" /\ log[i].reg = e.reg
                          /\ e \notin bad => wrote(e) = {}
                          /\ e \in bad =>
                                /\ Cardinality(wrote(e)) = 1
                                /\ \A i \in wrote(e) :
                                      /\ log[i].val = (dev_regs[e.reg] \cup e.set_bits) \ e.clear_bits
                                      /\ log[i - 1].op = "read" /\ log[i - 1].reg = e.reg
                                /\ RegisterValueOK(e, dev_regs'[e.reg])
                    /\ Violating(dev_regs') = {}
               ELSE _state' = STATE_FIFO_READ
      ]_vars

\* C4, its case: a pass in CONFIGURE that found exactly one register drifted and rewrote it.
C4_Witness ==
    /\ last.op = "RunImpl"
    /\ last.from = STATE_CONFIGURE
    /\ _state = STATE_CONFIGURE
    /\ Cardinality({i \in 1..Len(last.log) : last.log[i].op = "write"}) = 1
    /\ Violating(dev_regs) = {}

\* ------------------------------------------------------------ FIFORead

\* What FIFOReadCount() may read: nothing, 2, 4 and 6 frames, as many frames
\* as a batch holds, more, and a count whose frame number does not fit a uint8_t.
SampleCounts == {0, 2 * FIFO_DATA_SIZE, 4 * FIFO_DATA_SIZE, 6 * FIFO_DATA_SIZE,
                 FIFO_MAX_SAMPLES * FIFO_DATA_SIZE,
                 34 * FIFO_DATA_SIZE, 256 * FIFO_DATA_SIZE}

\* The accel values of the first four frames: pairs in step, pairs shifted by
\* one, no pairs, all equal, a pair then none, a pair in the middle and after.
AccelPatterns == { <<1, 1, 2, 2>>, <<1, 2, 2, 3>>, <<1, 2, 3, 4>>,
                   <<1, 1, 1, 1>>, <<1, 1, 2, 3>>, <<1, 2, 2, 2>> }

\* The byte counts the FIFO transfer may carry: whole frames, a torn frame,
\* the last count below the capacity, the capacity, above it.
ByteCounts == {k * FIFO_DATA_SIZE : k \in 0..8}
              \cup {2 * FIFO_DATA_SIZE + 6, FIFO_SIZE - 1, FIFO_SIZE, FIFO_SIZE + 88, 65535}

FifoImages == {Fifo(c, p \o <<5, 5, 6, 6>>) : c \in ByteCounts, p \in AccelPatterns}

NextFifo ==
    \/ Worker(WorkingBus, SampleCounts, FifoImages, {TRUE}, MaxFaults)
    \/ Interrupt
    \/ Tick(TickSteps, MaxFifoTime)
    \/ DevBootDone

SpecFifo == Init /\ [][NextFifo]_vars

\* The last step was a RunImpl() whose FIFORead() transfer succeeded.
FifoWasRead ==
    /\ last.op = "RunImpl"
    /\ \E i \in 1..Len(last.log) : last.log[i].op = "fifo_read" /\ last.log[i].ok

\* Of that call: the expected count E, the byte count and the actual count A
\* of the transfer, and the number n of frames to decode.
Expected == last.samples
ByteCount == last.in_fifo.count
Actual == ByteCount \div FIFO_DATA_SIZE
Decodable == IF Expected < Actual THEN Expected ELSE Actual

\* The 6 accel bytes of frame i of the transfer (from 0); behind the frames
\* the FIFO holds the buffer is zero.
AccelBytes(i) ==
    IF i < Len(last.in_fifo.frames) THEN last.in_fifo.frames[i + 1].ACCEL ELSE ZeroFrame.ACCEL

\* The pattern of doubled accel frames is not found in frames 0..3.
AlignmentCorrupted ==
    /\ Decodable >= 4
    /\ ~(AccelBytes(0) = AccelBytes(1) /\ AccelBytes(2) = AccelBytes(3))
    /\ AccelBytes(1) # AccelBytes(2)

\* The batches of a sensor the last step published.
Published(sensor) == SelectSeq(last.pub, LAMBDA b : b.sensor = sensor)

\* C5: a FIFORead() whose transfer succeeds with 1 <= A and a byte count below
\* FIFO_SIZE decodes min(E, A) frames and leaves _force_fifo_count_check set
\* exactly when A < E, A >= E + 2 or the accel alignment is corrupted; with a
\* corrupted alignment it fails, otherwise it succeeds.
C5_ForcedRecheck ==
    (FifoWasRead /\ Actual >= 1 /\ ByteCount < FIFO_SIZE) =>
       /\ last.decoded = Decodable
       /\ Len(Published("gyro")) = 1
       /\ Published("gyro")[1].samples = Decodable
       /\ _force_fifo_count_check =
             (Actual < Expected \/ Actual >= Expected + 2 \/ AlignmentCorrupted)
       /\ last.failure = AlignmentCorrupted

\* C5, its case: the FIFO holds one frame more than expected, and the flag is cleared.
C5_Witness ==
    /\ FifoWasRead
    /\ Actual = Expected + 1
    /\ Expected >= 4
    /\ ~_force_fifo_count_check

\* The frame index the k-th accel sample comes from when extraction starts at offset.
AccelFrame(offset, k) == offset + 2 * (k - 1)

\* The accel batch is the frames offset, offset + 2, ... below n, in order.
AccelBatchFrom(batch, offset) ==
    /\ batch.samples = Cardinality({i \in 0..(Decodable - 1) : i >= offset /\ (i - offset) % 2 = 0})
    /\ \A k \in 1..batch.samples :
          /\ AccelFrame(offset, k) < Decodable
          /\ batch.x[k] = AccelBytes(AccelFrame(offset, k))[1] * 256 + AccelBytes(AccelFrame(offset, k))[2]
          /\ batch.y[k] = -(AccelBytes(AccelFrame(offset, k))[3] * 256 + AccelBytes(AccelFrame(offset, k))[4])
          /\ batch.z[k] = -(AccelBytes(AccelFrame(offset, k))[5] * 256 + AccelBytes(AccelFrame(offset, k))[6])

\* C6: a batch of n >= 4 frames is extracted from offset 1 when frames 0, 1 and
\* frames 2, 3 carry equal accel bytes, else from offset 0 when frames 1, 2 do,
\* else from offset 1 with the transfer counted bad and FIFORead() failing; a
\* batch of 2 or 3 frames from offset 1 with nothing counted; the accel batch
\* is published and holds every second frame from the offset, in order.
C6_AccelOffset ==
    (FifoWasRead /\ Actual >= 1 /\ ByteCount < FIFO_SIZE /\ Decodable >= 2) =>
       /\ Len(Published("accel")) = 1
       /\ IF Decodable >= 4
          THEN IF AccelBytes(0) = AccelBytes(1) /\ AccelBytes(2) = AccelBytes(3)
               THEN /\ AccelBatchFrom(Published("accel")[1], 1)
                    /\ last.perf["bad_transfer"] = 0 /\ ~last.failure
               ELSE IF AccelBytes(1) = AccelBytes(2)
               THEN /\ AccelBatchFrom(Published("accel")[1], 0)
                    /\ last.perf["bad_transfer"] = 0 /\ ~last.failure
               ELSE /\ AccelBatchFrom(Published("accel")[1], 1)
                    /\ last.perf["bad_transfer"] = 1 /\ last.failure
          ELSE /\ AccelBatchFrom(Published("accel")[1], 1)
               /\ last.perf["bad_transfer"] = 0 /\ ~last.failure

\* C6, its case: six frames whose pairs are shifted by one are extracted from offset 0.
C6_Witness ==
    /\ FifoWasRead
    /\ Decodable = 6
    /\ ByteCount < FIFO_SIZE
    /\ AccelBytes(0) # AccelBytes(1)
    /\ AccelBytes(1) = AccelBytes(2)
    /\ Published("accel")[1].samples = 3

\* C7: a FIFORead() whose transfer carries a byte count of FIFO_SIZE or more
\* counts an overflow, resets the FIFO (FIFO_RST set and cleared, the data-ready
\* count, ready sample count and watermark timestamp zeroed), fails, and nothing
\* is published in the cycle.
C7_Overflow ==
    (FifoWasRead /\ ByteCount >= FIFO_SIZE) =>
       /\ last.perf["fifo_overflow"] = 1
       /\ last.perf["fifo_reset"] = 1
       /\ \E i \in 1..Len(last.log) : \E j \in (i + 1)..Len(last.log) :
             /\ last.log[i].op = "write" /\ last.log[i].reg = "FIFO_RST"
             /\ FIFO_RESET \subseteq last.log[i].val
             /\ last.log[j].op = "write" /\ last.log[j].reg = "FIFO_RST"
             /\ last.log[j].val \cap FIFO_RESET = {}
       /\ _data_ready_count = 0
       /\ _fifo_read_samples = 0
       /\ _fifo_watermark_interrupt_timestamp = 0
       /\ last.failure
       /\ last.pub = <<>>

\* C7, its case: a byte count of exactly FIFO_SIZE met a cycle started by a watermark signal.
C7_Witness ==
    /\ FifoWasRead
    /\ ByteCount = FIFO_SIZE
    /\ last.from_drdy
    /\ _fifo_read_samples = 0

\* ------------------------------------------------------------ DataReady

\* The driver on a board with data-ready pin, constructed with several rates.
DrdyRates == {800, 2000, 4000}

DrdyBoards == {[drdy_gpio |-> 1, magnetometer |-> FALSE]}

InitDrdy == InitDriver(DrdyRates, DrdyBoards, StartTime)

NextDrdy ==
    \/ Worker(WorkingBus, FifoCounts, Fifos, {TRUE}, MaxFaults)
    \/ Interrupt
    \/ Tick(TickSteps, MaxFifoTime)
    \/ DevBootDone

SpecDrdy == InitDrdy /\ [][NextDrdy]_vars

\* C8: with N = _fifo_gyro_samples, DataReady() signals exactly on the edge
\* that is the N-th since the last signal or FIFO reset: it then zeroes
\* _data_ready_count, stores the time as watermark timestamp and N as ready
\* sample count, and queues the work item; on every other edge it only counts
\* the edge, fewer than N having been counted.
C8_WatermarkSignal ==
    /\ edges = _data_ready_count
    /\ last.op = "DataReady" =>
          IF last.signalled
          THEN /\ last.signal_edges = _fifo_gyro_samples
               /\ _data_ready_count = 0
               /\ _fifo_watermark_interrupt_timestamp = now
               /\ _fifo_read_samples = _fifo_gyro_samples
               /\ run_pending
          ELSE /\ edges >= 1
               /\ edges < _fifo_gyro_samples

\* C8, its case: the twelfth edge of a driver that drains 12 gyro samples signals.
C8_Witness ==
    /\ last.op = "DataReady"
    /\ last.signalled
    /\ _fifo_gyro_samples = 12
    /\ last.signal_edges = 12

\* ------------------------------------------------------------ the CONFIGURE step

\* The places of the last step's log that hold an entry of this kind.
LogPlaces(what) == {i \in 1..Len(last.log) : last.log[i].op = what}

\* The places of the last step's log that hold a transfer to this register.
RegPlaces(reg) == {i \in 1..Len(last.log) : last.log[i].reg = reg}

\* The last step was a CONFIGURE run that moved on to FIFO_READ.
ConfigureSucceeded ==
    /\ last.op = "RunImpl"
    /\ last.from = STATE_CONFIGURE
    /\ _state = STATE_FIFO_READ

RateInputs == 0..MaxRate

InitRate == InitDriver(RateInputs, PollingBoards, StartTime)

NextRate ==
    \/ Worker(WorkingBus, {0}, {NoFifo}, {TRUE}, MaxFaults)
    \/ Tick(TickSteps, MaxRateTime)
    \/ DevBootDone

SpecRate == InitRate /\ [][NextRate]_vars

\* C12: the drain interval ConfigureSampleRate() stores is a whole multiple of
\* SAMPLES_PER_TRANSFER * FIFO_SAMPLE_DT (= SAMPLES_PER_TRANSFER * 1e6 / GYRO_RATE
\* microseconds) and at least that long, and neither sample count exceeds
\* FIFO_MAX_SAMPLES.
C12_IntervalOnGrid ==
    /\ (_fifo_empty_interval_us * SampleDt(GYRO_RATE).den)
          % (SAMPLES_PER_TRANSFER * SampleDt(GYRO_RATE).num) = 0
    /\ _fifo_empty_interval_us * SampleDt(GYRO_RATE).den
          >= SAMPLES_PER_TRANSFER * SampleDt(GYRO_RATE).num
    /\ _fifo_gyro_samples <= FIFO_MAX_SAMPLES
    /\ _fifo_accel_samples <= FIFO_MAX_SAMPLES

\* ------------------------------------------------------------ axis conversion

\* A frame whose accel axes are the raw values x, y, z and whose gyro axes are
\* y, z, x: each value as its two bytes, high byte first.
AxisFrame(x, y, z) ==
    LET hi(v) == (v % 65536) \div 256
        lo(v) == v % 256
    IN  [ACCEL |-> <<hi(x), lo(x), hi(y), lo(y), hi(z), lo(z)>>,
         GYRO  |-> <<hi(y), lo(y), hi(z), lo(z), hi(x), lo(x)>>]

\* FIFOs of two frames whose axes carry both ends of int16_t and the values
\* around zero.
AxisFifos ==
    LET RawValues == {INT16_MIN, INT16_MIN + 1, -1, 0, 1, INT16_MAX}
    IN  { [count |-> 2 * FIFO_DATA_SIZE, frames |-> <<AxisFrame(x, y, z), AxisFrame(x, y, z)>>] :
             x \in RawValues, y \in RawValues, z \in RawValues }

\* The polling driver reads FIFOs of two frames with these axis values.
NextAxis ==
    \/ Worker(WorkingBus, {2 * FIFO_DATA_SIZE}, AxisFifos, {TRUE}, MaxFaults)
    \/ Tick(TickSteps, MaxAxisTime)
    \/ DevBootDone

SpecAxis == InitReset /\ [][NextAxis]_vars

\* The signed 16-bit value of two bytes, high byte first.
Signed16(hi, lo) == IF hi >= 128 THEN hi * 256 + lo - 65536 ELSE hi * 256 + lo

\* The six axis bytes behind sample k of a published batch.
AxisBytes(batch, k) ==
    IF batch.sensor = "gyro" THEN last.in_fifo.frames[k].GYRO
    ELSE last.in_fifo.frames[batch.first + 2 * (k - 1) + 1].ACCEL

\* The value published for a raw value of the Y or Z axis.
Flipped(raw, out) ==
    /\ out = (IF raw = -32768 THEN 32767 ELSE 0 - raw)
    /\ out \in -32767..32767

\* C13: every published gyro and accel sample carries X as the signed value of
\* its two raw bytes, and Y and Z as the negated raw value, -32768 becoming
\* 32767, so that Y and Z lie in -32767..32767.
C13_AxisSigns ==
    \A b \in 1..Len(last.pub) : \A k \in 1..last.pub[b].samples :
       LET raw == AxisBytes(last.pub[b], k)
       IN  /\ last.pub[b].x[k] = Signed16(raw[1], raw[2])
           /\ Flipped(Signed16(raw[3], raw[4]), last.pub[b].y[k])
           /\ Flipped(Signed16(raw[5], raw[6]), last.pub[b].z[k])

\* C13, its case: an accel sample with raw Y = -32768 and raw Z = 1 was published.
C13_Witness ==
    \E b \in 1..Len(last.pub) :
       /\ last.pub[b].sensor = "accel"
       /\ last.pub[b].samples >= 1
       /\ AxisBytes(last.pub[b], 1)[3] = 128
       /\ AxisBytes(last.pub[b], 1)[4] = 0
       /\ last.pub[b].y[1] = 32767
       /\ last.pub[b].z[1] = -1

\* ------------------------------------------------------------ the incremental health check

\* The place of the "health_check" mark in a log, 0 when the check did not run.
HealthCheckAt(log) ==
    IF \E i \in 1..Len(log) : log[i].op = "health_check"
    THEN CHOOSE i \in 1..Len(log) : log[i].op = "health_check"
    ELSE 0

\* The first read of the entry's register after place from found its policy met.
FirstReadOK(log, from, reg_cfg) ==
    \E i \in (from + 1)..Len(log) :
       /\ log[i].op = "read"
       /\ log[i].reg = reg_cfg.reg
       /\ \A j \in (from + 1)..(i - 1) : ~(log[j].op = "read" /\ log[j].reg = reg_cfg.reg)
       /\ RegisterValueOK(reg_cfg, log[i].val)

\* C14: each cursor is an index of its own table; a FIFO_READ cycle that runs
\* the check advances the three cursors, each by one modulo its table's size,
\* and stores the cycle's timestamp as time of the last check when the entries
\* the cursors point at all pass; when one fails no cursor moves, the state
\* becomes CONFIGURE and the work item is queued; a cycle without check moves
\* no cursor.
C14_HealthCursors ==
    /\ [](/\ _checked_register_bank0 \in 0..(size_register_bank0_cfg - 1)
          /\ _checked_register_bank2 \in 0..(size_register_bank2_cfg - 1)
          /\ _checked_register_bank3 \in 0..(size_register_bank3_cfg - 1))
    /\ [][ (last'.op = "RunImpl" /\ _state = STATE_FIFO_READ) =>
             IF HealthCheckAt(last'.log) = 0
             THEN /\ UNCHANGED << _checked_register_bank0, _checked_register_bank2,
                                  _checked_register_bank3, _last_config_check_timestamp >>
                  /\ _state' = STATE_FIFO_READ
             ELSE IF /\ FirstReadOK(last'.log, HealthCheckAt(last'.log),
                                    _register_bank0_cfg[_checked_register_bank0 + 1])
                     /\ FirstReadOK(last'.log, HealthCheckAt(last'.log),
                                    _register_bank2_cfg[_checked_register_bank2 + 1])
                     /\ FirstReadOK(last'.log, HealthCheckAt(last'.log),
                                    _register_bank3_cfg[_checked_register_bank3 + 1])
             THEN /\ _checked_register_bank0' = (_checked_register_bank0 + 1) % size_register_bank0_cfg
                  /\ _checked_register_bank2' = (_checked_register_bank2 + 1) % size_register_bank2_cfg
                  /\ _checked_register_bank3' = (_checked_register_bank3 + 1) % size_register_bank3_cfg
                  /\ _last_config_check_timestamp' = last'.timestamp_sample
                  /\ _state' = STATE_FIFO_READ
             ELSE /\ UNCHANGED << _checked_register_bank0, _checked_register_bank2,
                                  _checked_register_bank3, _last_config_check_timestamp >>
                  /\ _state' = STATE_CONFIGURE
                  /\ run_pending'
       ]_vars

\* C14, its case: a check passed that took the cursor of the two-entry table
\* back to 0 while the cursors of the three-entry tables went on to 2.
C14_Witness ==
    /\ last.op = "RunImpl"
    /\ last.from = STATE_FIFO_READ
    /\ _state = STATE_FIFO_READ
    /\ HealthCheckAt(last.log) # 0
    /\ _checked_register_bank0 = 2
    /\ _checked_register_bank2 = 0
    /\ _checked_register_bank3 = 2

\* ------------------------------------------------------------ the rotation across CONFIGURE

\* The last step was a FIFO_READ cycle that ran the incremental check, the
\* first one since a check failed and sent the driver to CONFIGURE.
FirstCheckAfterReconfigure ==
    /\ last.op = "RunImpl"
    /\ last.from = STATE_FIFO_READ
    /\ last.reconfiguring
    /\ HealthCheckAt(last.log) # 0

\* The register the first read after the "health_check" mark addresses.
FirstChecked ==
    last.log[CHOOSE i \in (HealthCheckAt(last.log) + 1)..Len(last.log) :
                /\ last.log[i].op = "read"
                /\ \A j \in (HealthCheckAt(last.log) + 1)..(i - 1) : last.log[j].op # "read"].reg

\* C15: the first incremental check after CONFIGURE was re-entered by a failed
\* check examines entry 0 of the tables: it starts with the read of the first
\* register of _register_bank0_cfg.
C15_RotationRestarts ==
    FirstCheckAfterReconfigure => FirstChecked = _register_bank0_cfg[1].reg

\* C15 as the code has it: nothing but a FIFO_READ cycle moves a cursor, so
\* CONFIGURE, the reset states, Reset() and DataReady() leave the rotation
\* where the failed check stopped, and the first check after the driver is back
\* in FIFO_READ starts with the entry the cursor of _register_bank0_cfg points at.
C15_RotationResumes ==
    [][ /\ (last'.op # "RunImpl" \/ _state # STATE_FIFO_READ) =>
              UNCHANGED << _checked_register_bank0, _checked_register_bank2,
                           _checked_register_bank3 >>
        /\ (reconfiguring /\ last'.op = "RunImpl" /\ _state = STATE_FIFO_READ
            /\ HealthCheckAt(last'.log) # 0) =>
              \E i \in (HealthCheckAt(last'.log) + 1)..Len(last'.log) :
                 /\ last'.log[i].op = "read"
                 /\ last'.log[i].reg = _register_bank0_cfg[_checked_register_bank0 + 1].reg
                 /\ \A j \in (HealthCheckAt(last'.log) + 1)..(i - 1) : last'.log[j].op # "read"
      ]_vars

\* C15, its case: the first check after a failed one and a CONFIGURE pass
\* starts with the second entry of _register_bank0_cfg.
C15_Witness ==
    /\ FirstCheckAfterReconfigure
    /\ FirstChecked = _register_bank0_cfg[2].reg

\* ------------------------------------------------------------ the sample count of a cycle

\* The byte counts the device reports in FIFO_COUNTH/L: none, one frame, three
\* and four frames, two frames more than a batch holds, and counts of 256 and
\* 258 frames, beyond what eight bits hold.
CountInputs ==
    {0, FIFO_DATA_SIZE, 3 * FIFO_DATA_SIZE, 4 * FIFO_DATA_SIZE,
     (FIFO_MAX_SAMPLES + 2) * FIFO_DATA_SIZE, 256 * FIFO_DATA_SIZE, 258 * FIFO_DATA_SIZE}

\* The driver with and without data-ready pin on a working bus, the device
\* reporting these byte counts.
NextCount ==
    \/ Worker(WorkingBus, CountInputs, Fifos, {TRUE}, MaxFaults)
    \/ Interrupt
    \/ Tick(TickSteps, MaxCountTime)
    \/ DevBootDone

SpecCount == Init /\ [][NextCount]_vars

\* The whole frames of a byte count, rounded down to a multiple of
\* SAMPLES_PER_TRANSFER.
WholeTransfers(bytes) ==
    ((bytes \div FIFO_DATA_SIZE) \div SAMPLES_PER_TRANSFER) * SAMPLES_PER_TRANSFER

\* The ReadySignal can be used as the driver finds it when a cycle starts.
SignalUsable ==
    /\ _data_ready_interrupt_enabled
    /\ ~_force_fifo_count_check
    /\ _fifo_read_samples # 0
    /\ now - _fifo_watermark_interrupt_timestamp <= _fifo_empty_interval_us \div 2

\* C16: a FIFO_READ cycle takes its sample count and timestamp from the
\* ReadySignal, reading no FIFO count, exactly when the interrupt mode is on,
\* the forced recheck is off, the signalled count is not zero and the watermark
\* timestamp is at most half the drain interval old; every other cycle reads the
\* FIFO count and uses its whole frames rounded down to a multiple of
\* SAMPLES_PER_TRANSFER.
C16_CountSource ==
    [][ (last'.op = "RunImpl" /\ _state = STATE_FIFO_READ) =>
          IF SignalUsable
          THEN /\ \A i \in 1..Len(last'.log) : last'.log[i].op # "fifo_count"
               /\ last'.samples = _fifo_read_samples
               /\ last'.timestamp_sample = _fifo_watermark_interrupt_timestamp
          ELSE /\ \E i \in 1..Len(last'.log) : last'.log[i].op = "fifo_count"
               /\ last'.samples = WholeTransfers(last'.in_count)
      ]_vars

\* The last step was a FIFO_READ cycle that read the FIFO count.
CountedCycle ==
    /\ last.op = "RunImpl"
    /\ last.from = STATE_FIFO_READ
    /\ Did("fifo_count")

\* C17: a FIFO_READ cycle that reads a byte count whose whole frames, rounded
\* down to a multiple of SAMPLES_PER_TRANSFER, exceed FIFO_MAX_SAMPLES counts
\* an overflow, resets the FIFO, transfers no FIFO data, publishes nothing and
\* is a failed cycle.
C17_OverLimit ==
    (CountedCycle /\ WholeTransfers(last.in_count) > FIFO_MAX_SAMPLES) =>
       /\ last.perf["fifo_overflow"] = 1
       /\ last.perf["fifo_reset"] = 1
       /\ ~Did("fifo_read")
       /\ last.pub = <<>>
       /\ last.failure

\* ------------------------------------------------------------ the side work of a cycle

\* The byte counts of the cycles with side work: none, four frames, two frames
\* more than a batch holds.
SideCounts == {0, 4 * FIFO_DATA_SIZE, (FIFO_MAX_SAMPLES + 2) * FIFO_DATA_SIZE}

InitSide == InitDriver(Rates, Boards, SideStart)

\* The driver started close to one second after boot, a transfer failing once.
NextSide ==
    \/ Worker(FailSets, SideCounts, Fifos, {TRUE}, MaxFaults)
    \/ Interrupt
    \/ Tick(TickSteps, MaxSideTime)
    \/ DevBootDone

SpecSide == InitSide /\ [][NextSide]_vars

\* What an invocation's account names.
Ran(log, what) == \E i \in 1..Len(log) : log[i].op = what

\* The FIFORead() of an invocation, its transfer failing.
ReadBroke(log) == \E i \in 1..Len(log) : log[i].op = "fifo_read" /\ ~log[i].ok

\* C18: in a FIFO_READ cycle the incremental health check runs if and only if
\* the cycle failed (over-limit count, failed FIFORead, empty FIFO) or more
\* than 10 ms have passed since the last successful check; the temperature is
\* read only in a cycle without health check, and only when more than 1 s has
\* passed since the last update; so a failed cycle runs a health check and no
\* temperature read, and no cycle runs both.
C18_SideWork ==
    [][ (last'.op = "RunImpl" /\ _state = STATE_FIFO_READ) =>
          /\ (last'.samples > FIFO_MAX_SAMPLES \/ last'.samples = 0 \/ ReadBroke(last'.log))
                => last'.failure
          /\ (last'.failure /\ last'.samples \in SAMPLES_PER_TRANSFER..FIFO_MAX_SAMPLES)
                => Ran(last'.log, "fifo_read")
          /\ Ran(last'.log, "health_check") <=>
                (last'.failure \/ now - _last_config_check_timestamp > T_10ms)
          /\ Ran(last'.log, "temperature") =>
                /\ ~Ran(last'.log, "health_check")
                /\ now - _temperature_update_timestamp > T_1s
          /\ last'.failure =>
                (Ran(last'.log, "health_check") /\ ~Ran(last'.log, "temperature"))
          /\ ~(Ran(last'.log, "health_check") /\ Ran(last'.log, "temperature"))
      ]_vars

\* C18, its case: a cycle that did not fail read the temperature, no health
\* check in it, the last successful check 10 ms back.
C18_Witness ==
    /\ last.op = "RunImpl"
    /\ last.from = STATE_FIFO_READ
    /\ ~last.failure
    /\ Did("temperature")
    /\ ~Did("health_check")
    /\ _temperature_update_timestamp = now
    /\ _last_config_check_timestamp = now - T_10ms

\* ------------------------------------------------------------ the batches of a cycle

\* C19: a FIFO_READ cycle publishes nothing, or the gyro batch and then the
\* accel batch, both with the timestamp of the cycle; a cycle whose accel
\* alignment is corrupted publishes both all the same and fails.
C19_PublishPairs ==
    (last.op = "RunImpl" /\ last.from = STATE_FIFO_READ) =>
       /\ \/ last.pub = <<>>
          \/ /\ Len(last.pub) = 2
             /\ last.pub[1].sensor = "gyro"
             /\ last.pub[2].sensor = "accel"
             /\ last.pub[1].timestamp_sample = last.timestamp_sample
             /\ last.pub[2].timestamp_sample = last.timestamp_sample
       /\ (FifoWasRead /\ Actual >= 1 /\ ByteCount < FIFO_SIZE /\ AlignmentCorrupted) =>
             /\ Len(last.pub) = 2
             /\ last.failure

\* C19, its case: a cycle met a corrupted accel alignment, published both
\* batches and failed.
C19_Witness ==
    /\ last.op = "RunImpl"
    /\ last.from = STATE_FIFO_READ
    /\ FifoWasRead
    /\ ByteCount < FIFO_SIZE
    /\ AlignmentCorrupted
    /\ Len(last.pub) = 2
    /\ last.failure
    /\ last.timestamp_sample > 0

\* ------------------------------------------------------------ the accel samples of a transfer

\* C20: a FIFO_READ cycle calls FIFORead() with SAMPLES_PER_TRANSFER expected
\* samples or more, and every accel batch a cycle publishes holds one sample
\* at least, whatever the expected count and the count of the transfer.
C20_AccelSample ==
    (last.op = "RunImpl" /\ last.from = STATE_FIFO_READ) =>
       /\ Did("fifo_read") => last.samples >= SAMPLES_PER_TRANSFER
       /\ \A i \in 1..Len(last.pub) :
             last.pub[i].sensor = "accel" => last.pub[i].samples >= 1

\* ------------------------------------------------------------ the handler between the worker's steps

\* The worker is about to load _fifo_read_samples: "if (!_force_fifo_count_check)".
LoadsSignal ==
    /\ _state = STATE_FIFO_READ
    /\ _data_ready_interrupt_enabled
    /\ ~_force_fifo_count_check

\* RunImpl() up to "samples = _fifo_read_samples.load()"; the read of
\* _fifo_watermark_interrupt_timestamp is a later step.
WorkerLoad ==
    /\ run_pending
    /\ worker.pc = "idle"
    /\ LoadsSignal
    /\ LET m == [Cur({}, 0, NoFifo, TRUE) EXCEPT !.run_pending = FALSE]
       IN  Apply("load", m, [ScheduleDelayed(m, T_10ms) EXCEPT
                                !.worker = [pc |-> "loaded", samples |-> m._fifo_read_samples]])
    /\ UNCHANGED << faults, resets >>

\* What RunImpl() leaves when the three stores that end FIFOReset() are
\* still to come: the cells as they were, the worker before the first store.
Deferred(m, r) ==
    IF r.perf["fifo_reset"] > 0
    THEN [r EXCEPT !._data_ready_count = m._data_ready_count,
                   !._fifo_watermark_interrupt_timestamp = m._fifo_watermark_interrupt_timestamp,
                   !._fifo_read_samples = m._fifo_read_samples,
                   !.edges = m.edges,
                   !.worker = [pc |-> "store_count", samples |-> 0]]
    ELSE [r EXCEPT !.worker = [pc |-> "idle", samples |-> 0]]

\* RunImpl() from its start, or from the read of the watermark timestamp
\* with the sample count loaded before, up to the stores of FIFOReset().
WorkerRun(counts, fifos) ==
    /\ \/ worker.pc = "loaded"
       \/ worker.pc = "idle" /\ run_pending /\ ~LoadsSignal
    /\ \E in_count \in (IF _state = STATE_FIFO_READ THEN counts ELSE {0}),
          in_fifo \in (IF _state = STATE_FIFO_READ THEN fifos ELSE {NoFifo}) :
          LET m == [Cur({}, in_count, in_fifo, TRUE) EXCEPT
                       !.run_pending = IF worker.pc = "loaded" THEN @ ELSE FALSE]
          IN  Apply("RunImpl", m,
                    Deferred(m, IF worker.pc = "loaded"
                                THEN RunFifoRead_Manual(m, worker.samples,
                                                        m._fifo_watermark_interrupt_timestamp)
                                ELSE RunImpl(m)))
    /\ UNCHANGED << faults, resets >>

\* FIFOReset(): _data_ready_count.store(0), _fifo_watermark_interrupt_timestamp = 0,
\* _fifo_read_samples.store(0), one store a step.
FIFOResetStore ==
    /\ worker.pc \in {"store_count", "store_timestamp", "store_samples"}
    /\ _data_ready_count' = IF worker.pc = "store_count" THEN 0 ELSE _data_ready_count
    /\ edges' = IF worker.pc = "store_count" THEN 0 ELSE edges
    /\ _fifo_watermark_interrupt_timestamp' =
          IF worker.pc = "store_timestamp" THEN 0 ELSE _fifo_watermark_interrupt_timestamp
    /\ _fifo_read_samples' = IF worker.pc = "store_samples" THEN 0 ELSE _fifo_read_samples
    /\ worker' = [worker EXCEPT !.pc = CASE worker.pc = "store_count" -> "store_timestamp"
                                         [] worker.pc = "store_timestamp" -> "store_samples"
                                         [] OTHER -> "idle"]
    /\ last' = [NoLast EXCEPT !.op = "FIFOReset", !.from = _state, !.at = now]
    /\ UNCHANGED << now, _state, _reset_timestamp, _last_config_check_timestamp,
                    _temperature_update_timestamp, _last_register_bank,
                    _data_ready_interrupt_enabled, _force_fifo_count_check,
                    _checked_register_bank0, _checked_register_bank2,
                    _checked_register_bank3, _fifo_empty_interval_us,
                    _fifo_gyro_samples, _fifo_accel_samples, _drdy_gpio,
                    _slave_ak09916_magnetometer, _register_bank3_cfg, run_pending,
                    timer, irq_armed, dev_bank, dev_regs, dev_booting, reset_acked,
                    faults, resets, reconfiguring >>

\* The driver with data-ready pin, the handler free to run between any two
\* steps of the worker.
NextIrq ==
    \/ WorkerLoad
    \/ WorkerRun(SideCounts, Fifos)
    \/ FIFOResetStore
    \/ Interrupt
    \/ Tick(TickSteps, MaxFifoTime)
    \/ DevBootDone

SpecIrq == InitDrdy /\ [][NextIrq]_vars

\* C21: with the handler run to completion between any two steps of the
\* worker, the stores of FIFOReset() and the load and read that open a cycle
\* included: _fifo_read_samples is 0 or _fifo_gyro_samples; _data_ready_count
\* is below _fifo_gyro_samples whenever the handler is not running; the
\* worker changes the three cells only in the stores of FIFOReset(), to zero;
\* the handler changes the three cells and queues the work item, and nothing
\* else: not the state, the bank cache or the forced-recheck flag, and it
\* makes no transfer.
C21_ReadySignal ==
    /\ [](/\ _fifo_read_samples \in {0, _fifo_gyro_samples}
          /\ _data_ready_count < _fifo_gyro_samples)
    /\ [][ /\ last'.op \in {"load", "RunImpl", "FIFOReset"} =>
                /\ _data_ready_count' # _data_ready_count =>
                      (worker.pc = "store_count" /\ _data_ready_count' = 0)
                /\ _fifo_watermark_interrupt_timestamp' # _fifo_watermark_interrupt_timestamp =>
                      (worker.pc = "store_timestamp" /\ _fifo_watermark_interrupt_timestamp' = 0)
                /\ _fifo_read_samples' # _fifo_read_samples =>
                      (worker.pc = "store_samples" /\ _fifo_read_samples' = 0)
           /\ last'.op = "DataReady" =>
                /\ UNCHANGED << now, _state, _reset_timestamp, _last_config_check_timestamp,
                                _temperature_update_timestamp, _last_register_bank,
                                _data_ready_interrupt_enabled, _force_fifo_count_check,
                                _checked_register_bank0, _checked_register_bank2,
                                _checked_register_bank3, _fifo_empty_interval_us,
                                _fifo_gyro_samples, _fifo_accel_samples, _drdy_gpio,
                                _slave_ak09916_magnetometer, _register_bank3_cfg,
                                timer, irq_armed, dev_bank, dev_regs, dev_booting,
                                worker >>
                /\ run_pending => run_pending'
                /\ last'.log = <<>>
                /\ last'.pub = <<>>
      ]_vars

\* C21, its case: the handler signalled after the first two stores of
\* FIFOReset(), before _fifo_read_samples is stored.
C21_Witness ==
    /\ worker.pc = "store_samples"
    /\ last.op = "DataReady"
    /\ last.signalled
    /\ _fifo_read_samples = _fifo_gyro_samples
    /\ _fifo_watermark_interrupt_timestamp = now
    /\ _data_ready_count = 0

\* ------------------------------------------------------------ the bounds of a batch

\* The samples of the gyro batch a cycle published.
GyroCount == Published("gyro")[1].samples

\* The axes of a batch hold as many values as the batch has samples.
BatchFilled(batch) ==
    /\ Len(batch.x) = batch.samples
    /\ Len(batch.y) = batch.samples
    /\ Len(batch.z) = batch.samples

\* C22: every gyro batch published holds min(expected, actual) samples, one
\* at least and FIFO_MAX_SAMPLES at most; every accel batch holds at most
\* ceil(gyro count / 2) samples; every frame read from the transfer buffer
\* and every sample written to a batch has an index below the gyro count,
\* with the expected count from the ReadySignal or from the FIFO count.
C22_BatchBounds ==
    (last.op = "RunImpl" /\ last.from = STATE_FIFO_READ) =>
       /\ \A i \in 1..Len(last.pub) :
             IF last.pub[i].sensor = "gyro"
             THEN /\ last.pub[i].samples = Decodable
                  /\ last.pub[i].samples >= 1
                  /\ last.pub[i].samples <= FIFO_MAX_SAMPLES
                  /\ BatchFilled(last.pub[i])
             ELSE /\ Len(Published("gyro")) = 1
                  /\ 2 * last.pub[i].samples <= GyroCount + 1
                  /\ last.pub[i].samples >= 1 =>
                        AccelFrame(last.pub[i].first, last.pub[i].samples) < GyroCount
                  /\ BatchFilled(last.pub[i])
       /\ (last.pub # <<>> /\ last.decoded >= 4) => 3 < GyroCount

\* C22, its case: a cycle that expected FIFO_MAX_SAMPLES samples from the FIFO
\* count found more frames in the transfer and published full batches.
C22_Witness ==
    /\ last.op = "RunImpl"
    /\ last.from = STATE_FIFO_READ
    /\ ~last.from_drdy
    /\ Expected = FIFO_MAX_SAMPLES
    /\ Actual > FIFO_MAX_SAMPLES
    /\ Len(last.pub) = 2
    /\ GyroCount = FIFO_MAX_SAMPLES
    /\ 2 * Published("accel")[1].samples = FIFO_MAX_SAMPLES

====
